---------------------------- MODULE Spec2Model ----------------------------
(***************************************************************************)
(* A model of paperboy: the disk LRU cache (cache.py, ir_cache.py), the    *)
(* arXiv retrieval engine (retriever.py) and the bulk-file indexing        *)
(* pipeline (index/index_arxiv_bulk_files.py,                              *)
(* index/index_uspto_bulk_files.py).                                       *)
(*                                                                         *)
(* Three specifications share the module:                                  *)
(*   SpecCache  PaperCache.put / PaperCache.get on one cache directory     *)
(*   SpecRet    PaperRetriever.get_source_by_id over a fixed manifest      *)
(*   SpecIdx    scan_arxiv_directory / index_single_file over a bulk tree  *)
(***************************************************************************)
EXTENDS Integers, Sequences, FiniteSets, TLC

VARIABLES
    \* ---- cache directory (cache.py) ----
    files,        \* the cache directory: paper id -> [size, mtime, content]
    now,          \* the wall clock that stamps mtimes
    touched,      \* history: paper id -> time of its last put or get hit
    lastOp,       \* history: what the last cache call did
    \* ---- retrieval engine (retriever.py) ----
    paper_index,  \* the committed manifest table: paper id -> row
    settings,     \* which tiers the Settings enable
    request,      \* history: the arguments of the last get_source_by_id
    response,     \* history: what it returned
    trace,        \* history: the tiers it consulted, in order
    \* ---- indexing pipeline (index/index_*_bulk_files.py) ----
    corpus,       \* which indexer runs: "arxiv" or "uspto"
    tree,         \* the bulk archive tree: relative path -> [mtime, hash, corrupt, gen]
    bulk_files,   \* the committed bulk_files table: relative path -> row
    tx,           \* the connection's open transaction: writes not yet committed
    pc,           \* where the indexer process is
    run,          \* the current (or last) run: its locals, counters and history
    \* ---- functions checked on their own ----
    input,        \* the argument the function is applied to
    output,       \* what has been computed from it so far
    \* ---- PaperCache under concurrent callers ----
    fs,           \* the cache file of one key: its directory entry and the inodes
    threads       \* per thread: the call in progress, its locals, its last result

cacheVars == <<files, now, touched, lastOp>>
retOnly == <<settings, request, response, trace>>
retVars == <<paper_index, settings, request, response, trace>>
idxVars == <<corpus, tree, bulk_files, tx, pc, run>>
pureVars == <<input, output>>
raceVars == <<fs, threads>>
vars == <<files, now, touched, lastOp, paper_index, settings, request, response, trace,
          corpus, tree, bulk_files, tx, pc, run, input, output, fs, threads>>

----------------------------------------------------------------------------
(* Bounds of the model                                                     *)

\* The clock runs from 0 to MaxTime; every call advances it by one.
MaxTime == 5
\* Blob lengths are 1..MaxBlob (MaxBlob exceeds the budget: oversize puts).
MaxBlob == 6
\* A retrieval run makes at most MaxCalls calls of get_source_by_id.
MaxCalls == 2
\* The indexer is started at most MaxRuns times.
MaxRuns == 3
\* Bulk files start with mtime 1 and are touched up to mtime MaxMtime.
MaxMtime == 2
\* A bulk file is on disk in its release 1 and is replaced up to release MaxGen.
MaxGen == 2

----------------------------------------------------------------------------
(* Identifiers and contents                                                *)

\* Optional[int] "no version" (retriever.py parse_paper_id: version = None).
NoVer == 0 - 1

Bases == {"1501.00963", "2103.06497"}
\* The versions a caller may name: none, v0, v1, v2.
Versions == {NoVer, 0, 1, 2}

Key(b, v) == [base |-> b, ver |-> v]

Blob(d, m, n) == [doc |-> d, magic |-> m, len |-> n]

----------------------------------------------------------------------------
(* PaperCache (cache.py); IRCache (ir_cache.py) runs the same algorithm    *)
(* with the key "<paper_id>_<profile>".                                    *)

\* self.max_size_bytes, scaled: 5 stands for the configured budget.
max_size_bytes == 5

RECURSIVE SumSizes(_, _)
SumSizes(dir, ks) ==
    IF ks = {} THEN 0
    ELSE LET k == CHOOSE x \in ks : TRUE
         IN  dir[k].size + SumSizes(dir, ks \ {k})

\* _get_current_size
GetCurrentSize(dir) == SumSizes(dir, DOMAIN dir)

Remove(dir, k) == [x \in (DOMAIN dir) \ {k} |-> dir[x]]

Store(dir, k, rec) == [x \in (DOMAIN dir) \cup {k} |-> IF x = k THEN rec ELSE dir[x]]

IsSortedBy(dir, s) ==
    \A i \in 1..Len(s) : \A j \in 1..Len(s) :
        i < j => dir[s[i]].mtime <= dir[s[j]].mtime

\* _get_cache_entries: the directory listing sorted by mtime, oldest first.
\* Entries with equal mtimes keep the order iterdir() gave them, which is any.
GetCacheEntries(dir) ==
    { s \in [1..Cardinality(DOMAIN dir) -> DOMAIN dir] :
        /\ \A k \in DOMAIN dir : \E i \in 1..Len(s) : s[i] = k
        /\ IsSortedBy(dir, s) }

\* The for-loop of _evict_if_needed: unlink oldest entries until it fits.
RECURSIVE EvictLoop(_, _, _, _, _)
EvictLoop(dir, entries, i, current_size, target_size) ==
    IF i > Len(entries) \/ current_size <= target_size
    THEN dir
    ELSE EvictLoop(Remove(dir, entries[i]), entries, i + 1,
                   current_size - dir[entries[i]].size, target_size)

\* A slip: the target ignores the size of the blob about to be written.
EvictIfNeeded_NoRoom(dir, entries, new_content_size) ==
    LET current_size == GetCurrentSize(dir)
        target_size  == max_size_bytes
    IN  IF current_size <= target_size THEN dir
        ELSE EvictLoop(dir, entries, 1, current_size, target_size)

\* _evict_if_needed(new_content_size), with entries = _get_cache_entries()
EvictIfNeeded(dir, entries, new_content_size) ==
    LET current_size == GetCurrentSize(dir)
        target_size  == max_size_bytes - new_content_size
    IN  IF current_size <= target_size THEN dir
        ELSE EvictLoop(dir, entries, 1, current_size, target_size)

\* A slip: room is made before the size of the blob is looked at.
CachePut_EvictFirst(dir, entries, paper_id, content, t) ==
    IF content.len > max_size_bytes
    THEN EvictIfNeeded(dir, entries, content.len)
    ELSE Store(EvictIfNeeded(dir, entries, content.len), paper_id,
               [size |-> content.len, mtime |-> t, content |-> content])

\* put(paper_id, content) at time t: the directory it leaves.
\* An oversize blob is refused (returns False) and nothing changes.
CachePut(dir, entries, paper_id, content, t) ==
    IF content.len > max_size_bytes
    THEN dir
    ELSE Store(EvictIfNeeded(dir, entries, content.len), paper_id,
               [size |-> content.len, mtime |-> t, content |-> content])

\* put's return value
CachePutOk(content) == content.len <= max_size_bytes

\* get(paper_id): the blob, or "no blob" as the empty set of results.
\* err: read_bytes / utime raised OSError, which get turns into None.
CacheGetResult(dir, paper_id, err) ==
    IF paper_id \notin DOMAIN dir \/ err THEN {} ELSE {dir[paper_id].content}

\* A slip: a get hit that does not refresh the mtime.
CacheGetTouch_NoUtime(dir, paper_id, err, t) ==
    dir

\* get(paper_id) at time t: os.utime(cache_path, None) on a hit.
CacheGetTouch(dir, paper_id, err, t) ==
    IF paper_id \notin DOMAIN dir \/ err THEN dir
    ELSE [dir EXCEPT ![paper_id].mtime = t]

\* History: the last-touch times after a call that touched paper_id at t.
Touch(tch, paper_id, t) == Store(tch, paper_id, t)

----------------------------------------------------------------------------
(* PaperRetriever (retriever.py)                                           *)
(* An Optional value is a set with at most one element: {} is None.        *)

\* get_format_from_file_type
GetFormatFromFileType(file_type) ==
    IF file_type = "pdf" THEN "pdf"
    ELSE IF file_type \in {"gzip", "tar"} THEN "source"
    ELSE "unknown"

\* detect_content_type
DetectContentType(content) ==
    IF content.magic = "%PDF" THEN "application/pdf"
    ELSE IF content.magic = "gz" THEN "application/gzip"
    ELSE IF content.magic = "ustar" THEN "application/x-tar"
    ELSE "application/octet-stream"

\* The bytes a bulk archive holds for a member the indexer typed by its
\* extension (determine_file_type): a .pdf member is a PDF, a .gz member gzip.
MagicOfFileType(file_type) ==
    IF file_type = "pdf" THEN "%PDF"
    ELSE IF file_type = "gzip" THEN "gz"
    ELSE IF file_type = "tar" THEN "ustar"
    ELSE "other"

\* _resolve_paper_id, on the (base_id, version) that parse_paper_id returns
ResolvePaperId(base, ver) ==
    IF ver # NoVer
    THEN [lookup_id |-> Key(base, ver), requested_version |-> ver,
          version_required |-> TRUE]
    ELSE [lookup_id |-> Key(base, NoVer), requested_version |-> NoVer,
          version_required |-> FALSE]

\* _lookup_paper_metadata
LookupPaperMetadata(index, paper_id) ==
    IF paper_id \notin DOMAIN index THEN {}
    ELSE {[paper_id     |-> paper_id,
           archive_file |-> index[paper_id].archive_file,
           size         |-> index[paper_id].size,
           file_type    |-> index[paper_id].file_type,
           format       |-> GetFormatFromFileType(index[paper_id].file_type)]}

\* _get_from_local: the bytes at (offset, size) of the archive, or None when
\* the id has no row, the archive is not on disk, or the read raises. The
\* result is what file.read(size) returns after file.seek(offset): on an
\* archive that ends inside the member ("truncated") the bytes up to its
\* end, one fewer than size here; on an archive that ends at or before
\* offset ("emptied") the empty bytes.
GetFromLocal(index, paper_id, disk) ==
    IF paper_id \notin DOMAIN index THEN {}
    ELSE IF disk[index[paper_id].archive_file] = "truncated"
    THEN {Blob(paper_id, MagicOfFileType(index[paper_id].file_type),
               index[paper_id].size - 1)}
    ELSE IF disk[index[paper_id].archive_file] = "emptied"
    THEN {Blob(paper_id, "other", 0)}
    ELSE IF disk[index[paper_id].archive_file] # "present" THEN {}
    ELSE {Blob(paper_id, MagicOfFileType(index[paper_id].file_type),
               index[paper_id].size)}

\* _get_from_upstream: one GET <upstream>/paper/<paper_id>; resp is the answer.
GetFromUpstream(st, paper_id, resp) ==
    IF ~ st.upstream THEN {}
    ELSE IF resp.status = "200" THEN {Blob(paper_id, resp.magic, resp.len)}
    ELSE {}

\* The id _get_from_arxiv puts in its URLs: "if version" is false for None
\* and for 0.
ArxivId(base, ver) ==
    IF ver # NoVer /\ ver # 0 THEN Key(base, ver) ELSE Key(base, NoVer)

\* _get_from_arxiv: (content, source_type) or None. pdf and src are the
\* answers of arxiv.org/pdf/<id>.pdf and export.arxiv.org/e-print/<id>.
GetFromArxiv(st, base, ver, format, pdf, src) ==
    LET arxiv_id == ArxivId(base, ver)
        tryPdf   == format \in {"none", "preferred", "pdf"}
        trySrc   == format \in {"none", "preferred", "source"}
    IN  IF ~ st.arxiv THEN {}
        ELSE IF tryPdf /\ pdf.status \in {"timeout", "error"} THEN {}
        ELSE IF tryPdf /\ pdf.status = "200" /\ pdf.magic = "%PDF"
             THEN {[content |-> Blob(arxiv_id, pdf.magic, pdf.len),
                    source_type |-> "arxiv_pdf"]}
        ELSE IF trySrc /\ src.status \in {"timeout", "error"} THEN {}
        ELSE IF trySrc /\ src.status = "200"
             THEN {[content |-> Blob(arxiv_id, src.magic, src.len),
                    source_type |-> "arxiv_source"]}
        ELSE {}

\* A slip: the manifest row's format is not compared with the filter.
LocalFormatMismatch_Unchecked(metadata, format) ==
    FALSE

\* The format check on the manifest row (local_format_mismatch).
LocalFormatMismatch(metadata, format) ==
    /\ metadata # {}
    /\ format \notin {"none", "preferred"}
    /\ \E m \in metadata :
          \/ format = "pdf" /\ m.format # "pdf"
          \/ format = "source" /\ m.format # "source"

\* The format check on fetched bytes (upstream and arXiv tiers).
RemoteFormatMismatch(content, format) ==
    /\ format \notin {"none", "preferred"}
    /\ format # (IF DetectContentType(content) = "application/pdf"
                 THEN "pdf" ELSE "source")

ErrorResponse(error) ==
    [content |-> {}, content_type |-> "", error |-> error, paper_id |-> {},
     file_type |-> "", format |-> "", version |-> NoVer, source |-> ""]

\* success_response
SuccessResponse(content, source, meta, lookup_id, requested_version) ==
    LET content_type == DetectContentType(content)
        file_type == IF content_type = "application/pdf" THEN "pdf"
                     ELSE IF content_type = "application/gzip" THEN "gzip"
                     ELSE IF content_type = "application/x-tar" THEN "tar"
                     ELSE "unknown"
        fmt == IF file_type = "pdf" THEN "pdf"
               ELSE IF file_type \in {"gzip", "tar"} THEN "source"
               ELSE "unknown"
    IN  [content      |-> {content},
         content_type |-> content_type,
         error        |-> "none",
         paper_id     |-> IF meta # {} THEN {m.paper_id : m \in meta} ELSE {lookup_id},
         file_type    |-> IF meta # {} THEN (CHOOSE m \in meta : TRUE).file_type
                          ELSE file_type,
         format       |-> IF meta # {} THEN (CHOOSE m \in meta : TRUE).format
                          ELSE fmt,
         version      |-> requested_version,
         source       |-> source]

\* What get_source_by_id knows after the manifest lookups and the format
\* check, before any tier is tried.
Plan(index, base, ver, format) ==
    LET r       == ResolvePaperId(base, ver)
        base_id == Key(base, NoVer)
        meta1   == LookupPaperMetadata(index, r.lookup_id)
        meta    == IF meta1 = {} THEN LookupPaperMetadata(index, base_id) ELSE meta1
    IN  [lookup_id             |-> IF meta1 = {} THEN base_id ELSE r.lookup_id,
         base_id               |-> base_id,
         requested_version     |-> r.requested_version,
         try_arxiv_for_version |-> (meta1 = {} /\ r.version_required),
         metadata              |-> meta,
         local_format_mismatch |-> LocalFormatMismatch(meta, format)]

Step(done, resp, tiers, dir) ==
    [done |-> done, response |-> resp, trace |-> tiers, dir |-> dir]

Consulted(tier, res) == [tier |-> tier, produced |-> (res # {})]

\* A slip: an archive that cannot be read ends the call with its own error.
LocalTiers_HardFailure(p, index, st, dir, entries, env, t) ==
    LET cres == CacheGetResult(dir, p.lookup_id, env.cerr)
        ctr  == IF st.cache THEN <<Consulted("cache", cres)>> ELSE <<>>
        lres == GetFromLocal(index, p.lookup_id, env.disk)
    IN  IF p.local_format_mismatch
        THEN Step(FALSE, ErrorResponse(""), <<>>, dir)
        ELSE IF st.cache /\ cres # {}
        THEN Step(TRUE,
                  SuccessResponse(CHOOSE c \in cres : TRUE, "cache", p.metadata,
                                  p.lookup_id, p.requested_version),
                  ctr, CacheGetTouch(dir, p.lookup_id, env.cerr, t))
        ELSE IF lres # {}
        THEN Step(TRUE,
                  SuccessResponse(CHOOSE c \in lres : TRUE, "local", p.metadata,
                                  p.lookup_id, p.requested_version),
                  Append(ctr, Consulted("local", lres)),
                  IF st.cache
                  THEN CachePut(dir, entries, p.lookup_id, CHOOSE c \in lres : TRUE, t)
                  ELSE dir)
        ELSE IF /\ p.lookup_id \in DOMAIN index
                /\ env.disk[index[p.lookup_id].archive_file] = "unreadable"
        THEN Step(TRUE, ErrorResponse("permission_denied"),
                  Append(ctr, Consulted("local", lres)), dir)
        ELSE Step(FALSE, ErrorResponse(""), Append(ctr, Consulted("local", lres)), dir)

\* The cache and local tiers: skipped on a format mismatch.
LocalTiers(p, index, st, dir, entries, env, t) ==
    LET cres == CacheGetResult(dir, p.lookup_id, env.cerr)
        ctr  == IF st.cache THEN <<Consulted("cache", cres)>> ELSE <<>>
        lres == GetFromLocal(index, p.lookup_id, env.disk)
    IN  IF p.local_format_mismatch
        THEN Step(FALSE, ErrorResponse(""), <<>>, dir)
        ELSE IF st.cache /\ cres # {}
        THEN Step(TRUE,
                  SuccessResponse(CHOOSE c \in cres : TRUE, "cache", p.metadata,
                                  p.lookup_id, p.requested_version),
                  ctr, CacheGetTouch(dir, p.lookup_id, env.cerr, t))
        ELSE IF lres # {}
        THEN Step(TRUE,
                  SuccessResponse(CHOOSE c \in lres : TRUE, "local", p.metadata,
                                  p.lookup_id, p.requested_version),
                  Append(ctr, Consulted("local", lres)),
                  IF st.cache
                  THEN CachePut(dir, entries, p.lookup_id, CHOOSE c \in lres : TRUE, t)
                  ELSE dir)
        ELSE Step(FALSE, ErrorResponse(""), Append(ctr, Consulted("local", lres)), dir)

\* The upstream tier. info is the answer of <upstream>/paper/<id>/info.
UpstreamTier(p, st, dir, entries, format, env, t) ==
    LET ures == GetFromUpstream(st, p.lookup_id, env.up)
        utr  == IF st.upstream THEN <<Consulted("upstream", ures)>> ELSE <<>>
    IN  IF ures = {}
        THEN Step(FALSE, ErrorResponse(""), utr, dir)
        ELSE LET content == CHOOSE c \in ures : TRUE
             IN  IF RemoteFormatMismatch(content, format)
                 THEN Step(TRUE, ErrorResponse("format_unavailable"), utr, dir)
                 ELSE Step(TRUE,
                           SuccessResponse(content, "upstream", env.info,
                                           p.lookup_id, p.requested_version),
                           utr,
                           IF st.cache
                           THEN CachePut(dir, entries, p.lookup_id, content, t)
                           ELSE dir)

\* The key the arXiv tier caches under.
ArxivCacheKey(p) ==
    IF p.requested_version # NoVer /\ p.requested_version # 0
    THEN Key(p.base_id.base, p.requested_version)
    ELSE p.base_id

\* The arXiv (origin) tier, asked with the caller's own paper_id.
OriginTier(p, st, dir, entries, base, ver, format, env, t) ==
    LET ares == GetFromArxiv(st, base, ver, format, env.pdf, env.src)
        atr  == IF st.arxiv THEN <<Consulted("origin", ares)>> ELSE <<>>
    IN  IF ares = {}
        THEN Step(FALSE, ErrorResponse(""), atr, dir)
        ELSE LET a == CHOOSE x \in ares : TRUE
             IN  IF RemoteFormatMismatch(a.content, format)
                 THEN Step(TRUE, ErrorResponse("format_unavailable"), atr, dir)
                 ELSE Step(TRUE,
                           SuccessResponse(a.content, a.source_type, {},
                                           p.lookup_id, p.requested_version),
                           atr,
                           IF st.cache
                           THEN CachePut(dir, entries, ArxivCacheKey(p), a.content, t)
                           ELSE dir)

\* A slip: the format mismatch is looked at before the missing version.
Exhausted_FormatFirst(p) ==
    IF p.local_format_mismatch THEN ErrorResponse("format_unavailable")
    ELSE IF p.try_arxiv_for_version THEN ErrorResponse("version_not_found")
    ELSE ErrorResponse("not_found")

\* "All sources exhausted"
Exhausted(p) ==
    IF p.try_arxiv_for_version THEN ErrorResponse("version_not_found")
    ELSE IF p.local_format_mismatch THEN ErrorResponse("format_unavailable")
    ELSE ErrorResponse("not_found")

\* A slip: the upstream request is made before the local result is looked at.
GetSourceById_EagerUpstream(index, st, dir, entries, base, ver, format, env, t) ==
    LET p == Plan(index, base, ver, format)
        l == LocalTiers(p, index, st, dir, entries, env, t)
        u == UpstreamTier(p, st, dir, entries, format, env, t)
        a == OriginTier(p, st, dir, entries, base, ver, format, env, t)
    IN  IF l.done THEN Step(TRUE, l.response, l.trace \o u.trace, l.dir)
        ELSE IF u.done THEN Step(TRUE, u.response, l.trace \o u.trace, u.dir)
        ELSE IF a.done
             THEN Step(TRUE, a.response, l.trace \o u.trace \o a.trace, a.dir)
        ELSE Step(TRUE, Exhausted(p), l.trace \o u.trace \o a.trace, dir)

\* get_source_by_id(paper_id, format) at time t: the response, the tiers it
\* consulted in order, and the cache directory it leaves.
GetSourceById(index, st, dir, entries, base, ver, format, env, t) ==
    LET p == Plan(index, base, ver, format)
        l == LocalTiers(p, index, st, dir, entries, env, t)
        u == UpstreamTier(p, st, dir, entries, format, env, t)
        a == OriginTier(p, st, dir, entries, base, ver, format, env, t)
    IN  IF l.done THEN l
        ELSE IF u.done THEN Step(TRUE, u.response, l.trace \o u.trace, u.dir)
        ELSE IF a.done
             THEN Step(TRUE, a.response, l.trace \o u.trace \o a.trace, a.dir)
        ELSE Step(TRUE, Exhausted(p), l.trace \o u.trace \o a.trace, dir)

----------------------------------------------------------------------------
(* The indexing pipeline: operators                                        *)

Corpora == {"arxiv", "uspto"}

\* The bulk files under the root directory (year directories of .tar files
\* for arXiv, PTGRXML/ and APPXML/ directories of .zip files for USPTO).
BulkFilesOf(c) ==
    IF c = "arxiv"
    THEN {"2015/arXiv_src_1501_001.tar", "2021/arXiv_src_2103_001.tar"}
    ELSE {"PTGRXML/ipg240102.zip", "APPXML/ipa240104.zip"}

Member(id, offset, size, file_type) ==
    [id |-> id, offset |-> offset, size |-> size, file_type |-> file_type]

\* The members a scan finds in release gen of a bulk file (for USPTO,
\* file_type holds the document type of the patent). A later release of a
\* file drops a document and moves the others.
MembersOf(f, gen) ==
    CASE f = "2015/arXiv_src_1501_001.tar" ->
            IF gen = 1
            THEN {Member("1501.00963", 512, 2, "pdf"), Member("1501.00964", 2048, 3, "gzip")}
            ELSE {Member("1501.00964", 512, 3, "gzip")}
      [] f = "2021/arXiv_src_2103_001.tar" ->
            IF gen = 1
            THEN {Member("2103.06497", 512, 2, "gzip")}
            ELSE {Member("2103.06497", 1024, 2, "gzip")}
      [] f = "2015/arXiv_pdf_1501_001.tar" ->
            IF gen = 1
            THEN {Member("1501.00964", 512, 3, "pdf")}
            ELSE {Member("1501.00964", 1024, 3, "pdf")}
      [] f = "PTGRXML/ipg240102.zip" ->
            IF gen = 1
            THEN {Member("11856789", 0, 2, "grant"), Member("11856790", 2, 3, "grant")}
            ELSE {Member("11856790", 0, 3, "grant")}
      [] OTHER ->
            IF gen = 1
            THEN {Member("20240000001", 0, 2, "application")}
            ELSE {Member("20240000001", 4, 2, "application")}

\* The entries of release gen of a bulk file: one manifest row per member.
ScanEntries(f, gen) ==
    [k \in {Key(m.id, NoVer) : m \in MembersOf(f, gen)} |->
        LET m == CHOOSE x \in MembersOf(f, gen) : x.id = k.base
        IN  [archive_file |-> f, offset |-> m.offset, size |-> m.size,
             file_type |-> m.file_type]]

\* get_file_hash: the MD5 digest of the file's bytes; two releases of a
\* file have different digests.
GetFileHash(f, gen) == "md5:" \o f \o "#" \o ToString(gen)

\* process_tar_file_worker / process_zip_file_worker: no database access.
\* Any exception gives a result with error set, no entries, hash "" and
\* mtime 0 (the error string of an exception is taken to be non-empty).
ProcessFileWorker(tr, f) ==
    IF tr[f].corrupt
    THEN [relative_path |-> f, file_hash |-> "", mtime |-> 0,
          entries |-> <<>>, error |-> "ReadError"]
    ELSE [relative_path |-> f, file_hash |-> tr[f].hash, mtime |-> tr[f].mtime,
          entries |-> ScanEntries(f, tr[f].gen), error |-> ""]

\* INSERT OR REPLACE of a set of rows into a table keyed by primary key.
Upsert(table, new) ==
    [k \in (DOMAIN table) \cup (DOMAIN new) |->
        IF k \in DOMAIN new THEN new[k] ELSE table[k]]

Restrict(table, ks) == [k \in (DOMAIN table) \cap ks |-> table[k]]

\* The row mark_file_processed and the scan loop write into bulk_files.
BulkRow(file_hash, mtime) == [file_hash |-> file_hash, last_modified |-> mtime]

NoTx == [entries |-> <<>>, rows |-> <<>>]

\* get_processed_files: the committed bulk_files table as a dict.
GetProcessedFiles(bulk) == bulk

\* is_file_processed: a row exists and both its hash and its mtime match.
IsFileProcessed(bulk, tr, f) ==
    /\ f \in DOMAIN bulk
    /\ bulk[f].file_hash = tr[f].hash
    /\ bulk[f].last_modified = tr[f].mtime

\* The enumeration of scan_*_directory: a file is skipped when it has a row
\* whose last_modified equals the file's mtime; every other file is dispatched.
WorkItems(tr, processed_files) ==
    {f \in DOMAIN tr :
        ~ (f \in DOMAIN processed_files
             /\ tr[f].mtime = processed_files[f].last_modified)}

\* A slip: the coordinator does not look at result.error.
IngestDecision_NoErrorCheck(result, processed_files) ==
    IF /\ result.relative_path \in DOMAIN processed_files
       /\ processed_files[result.relative_path].file_hash = result.file_hash
    THEN "unchanged"
    ELSE "write"

\* What the coordinator does with a completed result: count it as failed,
\* drop it because the hash is the stored one, or write it to the manifest.
IngestDecision(result, processed_files) ==
    IF result.error # "" THEN "failed"
    ELSE IF /\ result.relative_path \in DOMAIN processed_files
            /\ processed_files[result.relative_path].file_hash = result.file_hash
         THEN "unchanged"
    ELSE "write"

\* The locals and counters of a run, and its history (write_failed: the
\* files one of whose row writes raised; second: the run is a directory scan
\* that follows a completed directory scan of the same, unchanged tree;
\* tree0, start_index, start_bulk: the tree and the tables when it started).
NoRun ==
    [mode |-> "none", n |-> 0, outcome |-> "none",
     processed_files |-> <<>>, work_items |-> {}, waiting |-> {}, cur |-> "",
     skipped_count |-> 0, files_processed |-> 0, files_failed |-> 0,
     total_entries |-> 0,
     write_failed |-> {}, second |-> FALSE,
     tree0 |-> <<>>, start_index |-> <<>>, start_bulk |-> <<>>]

\* No function is being applied.
PureIdle ==
    /\ input = <<>>
    /\ output = <<>>

\* No concurrent callers.
RaceIdle ==
    /\ fs = <<>>
    /\ threads = <<>>

\* The indexer is not in use.
IdxIdle ==
    /\ corpus = "arxiv"
    /\ tree = <<>>
    /\ bulk_files = <<>>
    /\ tx = NoTx
    /\ pc = "idle"
    /\ run = NoRun

----------------------------------------------------------------------------
(* SpecCache: one caller at a time calling put and get                     *)

\* put: the keys _evict_if_needed unlinked
CacheEvicted(dir, entries, content) ==
    IF content.len > max_size_bytes THEN {}
    ELSE (DOMAIN dir) \ (DOMAIN EvictIfNeeded(dir, entries, content.len))

NoOp == [op |-> "none", key |-> Key("1501.00963", NoVer), len |-> 0,
         before |-> <<>>, evicted |-> {}, tbefore |-> <<>>, hit |-> FALSE]

NoRequest == [base |-> "", ver |-> NoVer, format |-> "none"]

\* The retrieval engine is not running.
RetIdle ==
    /\ paper_index = <<>>
    /\ settings = [cache |-> TRUE, upstream |-> FALSE, arxiv |-> FALSE]
    /\ request = NoRequest
    /\ response = ErrorResponse("")
    /\ trace = <<>>

InitCache ==
    /\ files = <<>>
    /\ now = 0
    /\ touched = <<>>
    /\ lastOp = NoOp
    /\ RetIdle
    /\ IdxIdle
    /\ RaceIdle
    /\ PureIdle

\* The keys the cache specification puts and gets.
CacheKeys == {Key(b, v) : b \in Bases, v \in {NoVer, 1}}

\* The time of the next call. Two calls never share a timestamp: the mtimes
\* in the directory are pairwise distinct, as they are when the calls are
\* further apart than the filesystem's timestamp granularity.
Times == {t \in {now + 1} : t <= MaxTime}

\* The blob lengths put is called with: two that fit and one oversize.
BlobLens == {2, 3, MaxBlob}

Put(k, n) ==
    \E t \in Times : \E entries \in GetCacheEntries(files) :
        LET content == Blob(k, "%PDF", n)
            dir2    == CachePut(files, entries, k, content, t)
        IN  /\ files' = dir2
            /\ now' = t
            /\ touched' = IF CachePutOk(content) THEN Touch(touched, k, t) ELSE touched
            /\ lastOp' = [op |-> "put", key |-> k, len |-> n, before |-> files,
                          evicted |-> CacheEvicted(files, entries, content),
                          tbefore |-> touched, hit |-> CachePutOk(content)]
            /\ UNCHANGED <<retVars, idxVars, pureVars, raceVars>>

Get(k) ==
    \E t \in Times : \E err \in BOOLEAN :
        LET res  == CacheGetResult(files, k, err)
            dir2 == CacheGetTouch(files, k, err, t)
        IN  /\ files' = dir2
            /\ now' = t
            /\ touched' = IF res # {} THEN Touch(touched, k, t) ELSE touched
            /\ lastOp' = [op |-> "get", key |-> k, len |-> 0, before |-> files,
                          evicted |-> {}, tbefore |-> touched, hit |-> res # {}]
            /\ UNCHANGED <<retVars, idxVars, pureVars, raceVars>>

NextCache ==
    \/ \E k \in CacheKeys : \E n \in BlobLens : Put(k, n)
    \/ \E k \in CacheKeys : Get(k)

SpecCache == InitCache /\ [][NextCache]_vars

----------------------------------------------------------------------------
(* SpecRet: get_source_by_id called again and again on one PaperRetriever  *)

\* The paper the calls ask for, and the archive that holds it.
ReqBase == "1501.00963"
ArchiveFiles == {"2015/arXiv_src_1501_001.tar"}

\* The manifests the engine may be started on: rows for the bare id and for
\* a versioned id of the paper, each a PDF or a gzip member of length 2.
Rows == [archive_file : ArchiveFiles, offset : {512}, size : {2},
         file_type : {"pdf", "gzip"}]

Manifests ==
    UNION { [ks -> Rows] : ks \in SUBSET {Key(ReqBase, NoVer), Key(ReqBase, 1)} }

Formats == {"none", "pdf", "source", "preferred"}

\* What the world answers during one call.
DiskStates == {"present", "missing"}
RemoteLens == {2}
NoAnswer == [status |-> "404", magic |-> "other", len |-> 2]
HttpResponses ==
    [status : {"200"}, magic : {"%PDF", "gz"}, len : RemoteLens] \cup {NoAnswer}
\* The PDF request of the arXiv tier may also time out, which ends the tier.
PdfResponses == HttpResponses \cup {[NoAnswer EXCEPT !.status = "timeout"]}
InfoResponses ==
    {{}} \cup { {[paper_id |-> Key(ReqBase, NoVer), file_type |-> ft,
                  format |-> GetFormatFromFileType(ft)]} : ft \in {"pdf", "gzip"} }

\* The world as a call sees it when it gets no further than the cache.
QuietEnv ==
    [disk |-> [f \in ArchiveFiles |-> "missing"], cerr |-> FALSE,
     up |-> NoAnswer, info |-> {}, pdf |-> NoAnswer, src |-> NoAnswer]

InitRet ==
    /\ files = <<>>
    /\ now = 0
    /\ touched = <<>>
    /\ lastOp = NoOp
    /\ paper_index \in Manifests
    /\ settings \in [cache : BOOLEAN, upstream : BOOLEAN, arxiv : BOOLEAN]
    /\ request = NoRequest
    /\ response = ErrorResponse("")
    /\ trace = <<>>
    /\ IdxIdle
    /\ RaceIdle
    /\ PureIdle

\* One call of get_source_by_id. The world's answers are drawn tier by tier:
\* an answer the call never asks for is left at its QuietEnv value.
GetSource(ver, format) ==
    /\ now < MaxCalls
    /\ \E entries \in GetCacheEntries(files) :
       LET p == Plan(paper_index, ReqBase, ver, format)
           t == now + 1
           cached == settings.cache /\ ~ p.local_format_mismatch
                       /\ p.lookup_id \in DOMAIN files
       IN
       \E cerr \in (IF cached THEN BOOLEAN ELSE {FALSE}) :
       \E disk \in (IF ~ p.local_format_mismatch /\ (~ cached \/ cerr)
                       /\ p.lookup_id \in DOMAIN paper_index
                    THEN [ArchiveFiles -> DiskStates] ELSE {QuietEnv.disk}) :
       LET e2 == [QuietEnv EXCEPT !.cerr = cerr, !.disk = disk]
           l  == LocalTiers(p, paper_index, settings, files, entries, e2, t)
       IN
       \E up \in (IF ~ l.done /\ settings.upstream
                  THEN HttpResponses ELSE {NoAnswer}) :
       \E info \in (IF up.status = "200" THEN InfoResponses ELSE {{}}) :
       LET e3 == [e2 EXCEPT !.up = up, !.info = info]
           u  == UpstreamTier(p, settings, files, entries, format, e3, t)
           origin == ~ l.done /\ ~ u.done /\ settings.arxiv
       IN
       \E pdf \in (IF origin /\ format \in {"none", "preferred", "pdf"}
                   THEN PdfResponses ELSE {NoAnswer}) :
       \E src \in (IF origin /\ format \in {"none", "preferred", "source"}
                      /\ pdf.status # "timeout"
                      /\ ~ (pdf.status = "200" /\ pdf.magic = "%PDF")
                   THEN HttpResponses ELSE {NoAnswer}) :
       LET env == [e3 EXCEPT !.pdf = pdf, !.src = src]
           r   == GetSourceById(paper_index, settings, files, entries,
                                ReqBase, ver, format, env, t)
       IN  /\ files' = r.dir
           /\ response' = r.response
           /\ trace' = r.trace
           /\ request' = [base |-> ReqBase, ver |-> ver, format |-> format]
    /\ now' = now + 1
    /\ UNCHANGED <<touched, lastOp, paper_index, settings, idxVars, pureVars, raceVars>>

NextRet ==
    \E ver \in Versions : \E format \in Formats : GetSource(ver, format)

SpecRet == InitRet /\ [][NextRet]_vars

----------------------------------------------------------------------------
(* SpecIdx: the indexer started again and again on one bulk tree and one   *)
(* manifest, in directory-scan mode or in single-file mode; between runs   *)
(* bulk files may be touched; a run may be killed at any point.            *)

CacheIdle ==
    /\ files = <<>>
    /\ now = 0
    /\ touched = <<>>
    /\ lastOp = NoOp

\* A fresh manifest (create_database_schema) and a tree of bulk files, some
\* of which may be damaged archives.
InitIdx ==
    /\ CacheIdle
    /\ RetIdle
    /\ PureIdle
    /\ RaceIdle
    /\ corpus \in Corpora
    /\ \E damaged \in SUBSET BulkFilesOf(corpus) :
          tree = [f \in BulkFilesOf(corpus) |->
                     [mtime |-> 1, hash |-> GetFileHash(f, 1),
                      corrupt |-> f \in damaged, gen |-> 1]]
    /\ bulk_files = <<>>
    /\ tx = NoTx
    /\ pc = "idle"
    /\ run = NoRun

idxRest == <<cacheVars, retOnly, corpus, pureVars, raceVars>>

\* The run record of a run that starts now.
NewRun(mode) ==
    [NoRun EXCEPT !.mode = mode, !.n = run.n + 1, !.outcome = "running",
                  !.tree0 = tree, !.start_index = paper_index,
                  !.start_bulk = bulk_files,
                  !.second = /\ mode = "scan" /\ run.mode = "scan"
                             /\ run.outcome = "complete" /\ run.tree0 = tree]

\* scan_arxiv_directory / scan_uspto_directory up to the worker pool: read
\* bulk_files, enumerate the tree, return if there is nothing to dispatch.
ScanDirectory ==
    /\ pc = "idle"
    /\ run.n < MaxRuns
    /\ LET processed_files == GetProcessedFiles(bulk_files)
           work_items == WorkItems(tree, processed_files)
       IN  /\ run' = [NewRun("scan") EXCEPT
                        !.processed_files = processed_files,
                        !.work_items = work_items,
                        !.waiting = work_items,
                        !.skipped_count = Cardinality((DOMAIN tree) \ work_items),
                        !.outcome = IF work_items = {} THEN "complete" ELSE "running"]
           /\ pc' = IF work_items = {} THEN "idle" ELSE "ingest"
    /\ UNCHANGED <<tree, paper_index, bulk_files, tx, idxRest>>

\* A slip: a failed file is submitted again and waited for.
IngestFailed_Resubmit(f) ==
    /\ pc = "ingest"
    /\ f \in run.waiting
    /\ IngestDecision(ProcessFileWorker(tree, f), run.processed_files) = "failed"
    /\ UNCHANGED <<run, tree, paper_index, bulk_files, tx, pc, idxRest>>

\* The coordinator takes a completed result whose worker failed.
IngestFailed(f) ==
    /\ pc = "ingest"
    /\ f \in run.waiting
    /\ IngestDecision(ProcessFileWorker(tree, f), run.processed_files) = "failed"
    /\ run' = [run EXCEPT !.waiting = @ \ {f}, !.files_failed = @ + 1]
    /\ UNCHANGED <<tree, paper_index, bulk_files, tx, pc, idxRest>>

\* The coordinator takes a completed result whose hash is the stored one.
IngestUnchanged(f) ==
    /\ pc = "ingest"
    /\ f \in run.waiting
    /\ IngestDecision(ProcessFileWorker(tree, f), run.processed_files) = "unchanged"
    /\ run' = [run EXCEPT !.waiting = @ \ {f}]
    /\ UNCHANGED <<tree, paper_index, bulk_files, tx, pc, idxRest>>

\* A slip: the results are gathered in one transaction, committed after the
\* last of them.
IngestWrite_Batched(f) ==
    /\ pc = "ingest"
    /\ f \in run.waiting
    /\ LET result == ProcessFileWorker(tree, f)
       IN  /\ IngestDecision(result, run.processed_files) = "write"
           /\ tx' = [entries |-> Upsert(tx.entries, result.entries),
                     rows |-> Upsert(tx.rows,
                                     (f :> BulkRow(result.file_hash, result.mtime)))]
    /\ pc' = IF run.waiting = {f} THEN "staged" ELSE "ingest"
    /\ run' = [run EXCEPT !.waiting = @ \ {f}, !.cur = f]
    /\ UNCHANGED <<tree, paper_index, bulk_files, idxRest>>

\* The coordinator takes a completed result and writes its entries and its
\* bulk_files row in the open transaction.
IngestWrite(f) ==
    /\ pc = "ingest"
    /\ f \in run.waiting
    /\ LET result == ProcessFileWorker(tree, f)
       IN  /\ IngestDecision(result, run.processed_files) = "write"
           /\ tx' = [entries |-> result.entries,
                     rows |-> (f :> BulkRow(result.file_hash, result.mtime))]
    /\ pc' = "staged"
    /\ run' = [run EXCEPT !.waiting = @ \ {f}, !.cur = f]
    /\ UNCHANGED <<tree, paper_index, bulk_files, idxRest>>

\* executemany raises sqlite3.Error: the exception leaves the scan, the
\* connection is closed and its open transaction is rolled back.
IngestWriteError(f) ==
    /\ pc = "ingest"
    /\ f \in run.waiting
    /\ LET result == ProcessFileWorker(tree, f)
       IN  /\ IngestDecision(result, run.processed_files) = "write"
           /\ DOMAIN result.entries # {}
    /\ tx' = NoTx
    /\ pc' = "idle"
    /\ run' = [run EXCEPT !.waiting = @ \ {f}, !.cur = f, !.outcome = "aborted",
                          !.write_failed = @ \cup {f}]
    /\ UNCHANGED <<tree, paper_index, bulk_files, idxRest>>

\* conn.commit() of a staged batch: the entries and the row become visible
\* together. In single-file mode the run ends here.
CommitBatch ==
    /\ pc = "staged"
    /\ paper_index' = Upsert(paper_index, tx.entries)
    /\ bulk_files' = Upsert(bulk_files, tx.rows)
    /\ tx' = NoTx
    /\ pc' = IF run.mode = "scan" THEN "ingest" ELSE "idle"
    /\ run' = [run EXCEPT !.files_processed = @ + 1,
                          !.total_entries = @ + Cardinality(DOMAIN tx.entries),
                          !.outcome = IF run.mode = "scan" THEN "running" ELSE "complete"]
    /\ UNCHANGED <<tree, idxRest>>

\* Every result has been taken: the summary is printed and the scan returns.
FinishScan ==
    /\ pc = "ingest"
    /\ run.waiting = {}
    /\ pc' = "idle"
    /\ run' = [run EXCEPT !.outcome = "complete"]
    /\ UNCHANGED <<tree, paper_index, bulk_files, tx, idxRest>>

\* arXiv index_single_file up to the call of index_tar_file.
IndexSingleFile(f) ==
    /\ pc = "idle"
    /\ corpus = "arxiv"
    /\ run.n < MaxRuns
    /\ f \in DOMAIN tree
    /\ IF IsFileProcessed(bulk_files, tree, f)
       THEN /\ run' = [NewRun("single") EXCEPT !.cur = f, !.outcome = "complete"]
            /\ pc' = "idle"
       ELSE /\ run' = [NewRun("single") EXCEPT !.cur = f]
            /\ pc' = "index_tar"
    /\ UNCHANGED <<tree, paper_index, bulk_files, tx, idxRest>>

\* index_tar_file up to its commit: one INSERT OR REPLACE per member; a
\* sqlite3.Error of a row is logged and that row is left out.
IndexTarFile ==
    /\ pc = "index_tar"
    /\ ~ tree[run.cur].corrupt
    /\ \E bad \in SUBSET (DOMAIN ScanEntries(run.cur, tree[run.cur].gen)) :
          /\ tx' = [entries |-> Restrict(ScanEntries(run.cur, tree[run.cur].gen),
                                         (DOMAIN ScanEntries(run.cur, tree[run.cur].gen)) \ bad),
                    rows |-> <<>>]
          /\ run' = [run EXCEPT !.write_failed =
                                   IF bad = {} THEN @ ELSE @ \cup {run.cur}]
    /\ pc' = "tar_staged"
    /\ UNCHANGED <<tree, paper_index, bulk_files, idxRest>>

\* index_tar_file cannot read the archive: the exception is re-raised and
\* leaves index_single_file.
IndexTarFileError ==
    /\ pc = "index_tar"
    /\ tree[run.cur].corrupt
    /\ tx' = NoTx
    /\ pc' = "idle"
    /\ run' = [run EXCEPT !.outcome = "aborted"]
    /\ UNCHANGED <<tree, paper_index, bulk_files, idxRest>>

\* The conn.commit() that ends index_tar_file.
CommitTar ==
    /\ pc = "tar_staged"
    /\ paper_index' = Upsert(paper_index, tx.entries)
    /\ bulk_files' = Upsert(bulk_files, tx.rows)
    /\ tx' = NoTx
    /\ pc' = "mark"
    /\ run' = [run EXCEPT !.total_entries = @ + Cardinality(DOMAIN tx.entries)]
    /\ UNCHANGED <<tree, idxRest>>

\* mark_file_processed up to its commit.
MarkFileProcessed ==
    /\ pc = "mark"
    /\ tx' = [entries |-> <<>>,
              rows |-> (run.cur :> BulkRow(GetFileHash(run.cur, tree[run.cur].gen),
                                           tree[run.cur].mtime))]
    /\ pc' = "mark_staged"
    /\ UNCHANGED <<tree, paper_index, bulk_files, run, idxRest>>

\* The conn.commit() that ends mark_file_processed; index_single_file returns.
CommitMark ==
    /\ pc = "mark_staged"
    /\ paper_index' = Upsert(paper_index, tx.entries)
    /\ bulk_files' = Upsert(bulk_files, tx.rows)
    /\ tx' = NoTx
    /\ pc' = "idle"
    /\ run' = [run EXCEPT !.files_processed = @ + 1, !.outcome = "complete"]
    /\ UNCHANGED <<tree, idxRest>>

\* USPTO index_single_file up to its commit: the worker runs in-process; a
\* failed scan or a failed executemany raises and nothing is committed.
IndexSingleZip(f) ==
    /\ pc = "idle"
    /\ corpus = "uspto"
    /\ run.n < MaxRuns
    /\ f \in DOMAIN tree
    /\ LET result == ProcessFileWorker(tree, f)
       IN  IF result.error # ""
           THEN /\ run' = [NewRun("single") EXCEPT !.cur = f, !.outcome = "aborted"]
                /\ tx' = NoTx
                /\ pc' = "idle"
           ELSE \E ok \in BOOLEAN :
                   IF ok
                   THEN /\ run' = [NewRun("single") EXCEPT !.cur = f]
                        /\ tx' = [entries |-> result.entries,
                                  rows |-> (f :> BulkRow(result.file_hash, result.mtime))]
                        /\ pc' = "staged"
                   ELSE /\ run' = [NewRun("single") EXCEPT !.cur = f,
                                      !.outcome = "aborted", !.write_failed = {f}]
                        /\ tx' = NoTx
                        /\ pc' = "idle"
    /\ UNCHANGED <<tree, paper_index, bulk_files, idxRest>>

\* The indexer process is killed (SIGINT, power loss): what its connection
\* had not committed is rolled back.
Interrupt ==
    /\ pc # "idle"
    /\ tx' = NoTx
    /\ pc' = "idle"
    /\ run' = [run EXCEPT !.outcome = "interrupted"]
    /\ UNCHANGED <<tree, paper_index, bulk_files, idxRest>>

\* Between runs a bulk file is replaced by its next release: new bytes, new
\* digest, new mtime.
ReplaceFile(f) ==
    /\ pc = "idle"
    /\ f \in DOMAIN tree
    /\ tree[f].gen < MaxGen
    /\ tree[f].mtime < MaxMtime
    /\ tree' = [tree EXCEPT ![f].gen = @ + 1, ![f].mtime = @ + 1,
                            ![f].hash = GetFileHash(f, tree[f].gen + 1)]
    /\ UNCHANGED <<paper_index, bulk_files, tx, pc, run, idxRest>>

\* Between runs a bulk file gets a new mtime (copied, restored, touched);
\* its bytes stay the same.
TouchFile(f) ==
    /\ pc = "idle"
    /\ f \in DOMAIN tree
    /\ tree[f].mtime < MaxMtime
    /\ tree' = [tree EXCEPT ![f].mtime = @ + 1]
    /\ UNCHANGED <<paper_index, bulk_files, tx, pc, run, idxRest>>

NextIdx ==
    \/ ScanDirectory
    \/ \E f \in DOMAIN tree : IngestFailed(f)
    \/ \E f \in DOMAIN tree : IngestUnchanged(f)
    \/ \E f \in DOMAIN tree : IngestWrite(f)
    \/ \E f \in DOMAIN tree : IngestWriteError(f)
    \/ CommitBatch
    \/ FinishScan
    \/ \E f \in DOMAIN tree : IndexSingleFile(f)
    \/ IndexTarFile
    \/ IndexTarFileError
    \/ CommitTar
    \/ MarkFileProcessed
    \/ CommitMark
    \/ \E f \in DOMAIN tree : IndexSingleZip(f)
    \/ Interrupt
    \/ \E f \in DOMAIN tree : TouchFile(f)
    \/ \E f \in DOMAIN tree : ReplaceFile(f)

SpecIdx == InitIdx /\ [][NextIdx]_vars

----------------------------------------------------------------------------
(* SpecOrder: directory scans of a year directory that holds the pdf tar   *)
(* and the src tar of one month; 1501.00964.pdf is a member of the first    *)
(* and 1501.00964.gz of the second, and extract_paper_id gives both the id  *)
(* 1501.00964.                                                             *)

PairedFiles == {"2015/arXiv_pdf_1501_001.tar", "2015/arXiv_src_1501_001.tar"}

InitOrder ==
    /\ CacheIdle
    /\ RetIdle
    /\ PureIdle
    /\ RaceIdle
    /\ corpus = "arxiv"
    /\ \E damaged \in SUBSET PairedFiles :
          tree = [f \in PairedFiles |->
                     [mtime |-> 1, hash |-> GetFileHash(f, 1),
                      corrupt |-> f \in damaged, gen |-> 1]]
    /\ bulk_files = <<>>
    /\ tx = NoTx
    /\ pc = "idle"
    /\ run = NoRun

----------------------------------------------------------------------------
(* SpecScan: the indexer in directory-scan mode only. Every worker returns  *)
(* its result, so the coordinator's loop over the completed results goes on *)
(* as long as a result is waiting or a batch is staged.                     *)

\* A step of the coordinator's loop.
ScanStep ==
    \/ \E f \in DOMAIN tree : IngestFailed(f)
    \/ \E f \in DOMAIN tree : IngestUnchanged(f)
    \/ \E f \in DOMAIN tree : IngestWrite(f)
    \/ CommitBatch
    \/ FinishScan

NextScan ==
    \/ ScanDirectory
    \/ \E f \in DOMAIN tree : IngestFailed(f)
    \/ \E f \in DOMAIN tree : IngestUnchanged(f)
    \/ \E f \in DOMAIN tree : IngestWrite(f)
    \/ CommitBatch
    \/ FinishScan
    \/ \E f \in DOMAIN tree : IngestWriteError(f)
    \/ Interrupt
    \/ \E f \in DOMAIN tree : TouchFile(f)
    \/ \E f \in DOMAIN tree : ReplaceFile(f)

SpecScan == InitIdx /\ [][NextScan]_vars /\ WF_vars(ScanStep)

SpecOrder == InitOrder /\ [][NextScan]_vars

----------------------------------------------------------------------------
(* Archives as bytes: the scanners and the byte-range fetchers              *)

\* tarfile's block size (512), scaled.
BlockSize == 2

Min(a, b) == IF a <= b THEN a ELSE b

\* A run of n copies of token x.
RECURSIVE Fill(_, _)
Fill(x, n) == IF n <= 0 THEN <<>> ELSE <<x>> \o Fill(x, n - 1)

\* The payload of the j-th member: size bytes, each its own.
RECURSIVE Payload(_, _, _)
Payload(j, i, size) ==
    IF i > size THEN <<>>
    ELSE <<[t |-> "data", m |-> j, b |-> i]>> \o Payload(j, i + 1, size)

RoundUp(n) == ((n + BlockSize - 1) \div BlockSize) * BlockSize

\* The bytes of a tar archive with the members ms: per member one header
\* block, the payload, and padding up to a block boundary; two zero blocks
\* end the archive.
RECURSIVE TarBytes(_, _)
TarBytes(ms, j) ==
    IF j > Len(ms) THEN Fill([t |-> "zero"], 2 * BlockSize)
    ELSE <<[t |-> "hdr", m |-> j, name |-> ms[j].name, size |-> ms[j].size,
            isfile |-> ms[j].isfile]>>
         \o Fill([t |-> "hdrpad"], BlockSize - 1)
         \o Payload(j, 1, ms[j].size)
         \o Fill([t |-> "pad"], RoundUp(ms[j].size) - ms[j].size)
         \o TarBytes(ms, j + 1)

\* extract_paper_id: the base name without its extension.
ExtractPaperId(name) == name.stem

\* determine_file_type
DetermineFileType(name) ==
    IF name.ext = ".pdf" THEN "pdf"
    ELSE IF name.ext = ".gz" THEN "gzip"
    ELSE IF name.ext = ".tar" THEN "tar"
    ELSE "unknown"

\* A slip: the entry records the offset of the member's header
\* (member.offset) in place of the offset of its data.
TarScan_HeaderOffset(bytes, pos) ==
    LET RECURSIVE Scan(_)
        Scan(q) ==
            IF q + 1 > Len(bytes) \/ bytes[q + 1].t # "hdr" THEN <<>>
            ELSE (IF bytes[q + 1].isfile
                  THEN <<[id |-> ExtractPaperId(bytes[q + 1].name),
                          offset |-> q, size |-> bytes[q + 1].size,
                          file_type |-> DetermineFileType(bytes[q + 1].name),
                          m |-> bytes[q + 1].m]>>
                  ELSE <<>>)
                 \o Scan(q + BlockSize + RoundUp(bytes[q + 1].size))
    IN  Scan(pos)

\* The loop of process_tar_file_worker over tarfile.open(mode='r|'), from
\* byte position pos: one entry per member
\* that is a regular file, with the member's offset_data and size (m is the
\* member's ordinal, which tells the members' bytes apart).
TarScan(bytes, pos) ==
    LET RECURSIVE Scan(_)
        Scan(q) ==
            IF q + 1 > Len(bytes) \/ bytes[q + 1].t # "hdr" THEN <<>>
            ELSE (IF bytes[q + 1].isfile
                  THEN <<[id |-> ExtractPaperId(bytes[q + 1].name),
                          offset |-> q + BlockSize, size |-> bytes[q + 1].size,
                          file_type |-> DetermineFileType(bytes[q + 1].name),
                          m |-> bytes[q + 1].m]>>
                  ELSE <<>>)
                 \o Scan(q + BlockSize + RoundUp(bytes[q + 1].size))
    IN  Scan(pos)

\* file.seek(offset); file.read(size): at most size bytes, fewer at the end
\* of the file (PaperRetriever._get_from_local; PatentRetriever._get_from_local
\* does the same on the decompressed inner XML).
ReadRange(bytes, offset, size) ==
    SubSeq(bytes, offset + 1, Min(offset + size, Len(bytes)))

\* The prefixes of a block that _extract_patent_info searches (2000 bytes
\* for the root element, 4096 bytes for the publication reference), scaled.
HeaderPrefix == 2
InfoPrefix == 3

\* A split that cuts each block one unit before the next marker.
SplitXmlOnDeclarations_ShortBlocks(content) ==
    LET boundaries == {i \in 1..Len(content) : content[i].t = "decl"}
        NextB(i) == IF \E j \in boundaries : j > i
                    THEN CHOOSE j \in boundaries :
                            j > i /\ \A k \in boundaries : k > i => j <= k
                    ELSE Len(content) + 1
        RECURSIVE Blocks(_)
        Blocks(i) ==
            IF i > Len(content) THEN <<>>
            ELSE IF i \in boundaries
                 THEN <<[offset |-> i - 1,
                         size |-> IF NextB(i) <= Len(content) /\ NextB(i) > i + 1
                                  THEN NextB(i) - i - 1 ELSE NextB(i) - i]>>
                      \o Blocks(NextB(i))
            ELSE Blocks(i + 1)
    IN  Blocks(1)

\* _split_xml_on_declarations: the positions of the "<?xml" markers, and
\* for each the (offset, size) of the block up to the next marker or the end.
SplitXmlOnDeclarations(content) ==
    LET boundaries == {i \in 1..Len(content) : content[i].t = "decl"}
        NextB(i) == IF \E j \in boundaries : j > i
                    THEN CHOOSE j \in boundaries :
                            j > i /\ \A k \in boundaries : k > i => j <= k
                    ELSE Len(content) + 1
        RECURSIVE Blocks(_)
        Blocks(i) ==
            IF i > Len(content) THEN <<>>
            ELSE IF i \in boundaries
                 THEN <<[offset |-> i - 1, size |-> NextB(i) - i]>> \o Blocks(NextB(i))
            ELSE Blocks(i + 1)
    IN  Blocks(1)

\* _extract_patent_info: (doc_number, kind_code, doc_type, year) of a block,
\* or None (the empty set) when no publication reference is found.
ExtractPatentInfo(xml_block) ==
    LET header == SubSeq(xml_block, 1, Min(HeaderPrefix, Len(xml_block)))
        head   == SubSeq(xml_block, 1, Min(InfoPrefix, Len(xml_block)))
        doc_type ==
            IF \E i \in 1..Len(header) :
                  header[i].t = "root" /\ header[i].doc_type = "grant"
            THEN "grant"
            ELSE IF \E i \in 1..Len(header) :
                       header[i].t = "root" /\ header[i].doc_type = "application"
                 THEN "application"
            ELSE "unknown"
        refs == {i \in 1..Len(head) : head[i].t = "pubref"}
    IN  IF refs = {} THEN {}
        ELSE LET r == head[CHOOSE i \in refs : \A j \in refs : i <= j]
             IN  {[doc_number |-> r.doc_number, kind_code |-> r.kind_code,
                   doc_type |-> doc_type, year |-> r.year]}

\* The loop of process_zip_file_worker over the blocks of the inner XML:
\* one entry per block that has a publication reference.
ZipScan(content) ==
    LET blocks == SplitXmlOnDeclarations(content)
        RECURSIVE Entries(_)
        Entries(i) ==
            IF i > Len(blocks) THEN <<>>
            ELSE LET block == SubSeq(content, blocks[i].offset + 1,
                                     blocks[i].offset + blocks[i].size)
                     info  == ExtractPatentInfo(block)
                 IN  IF info = {} THEN Entries(i + 1)
                     ELSE LET p == CHOOSE x \in info : TRUE
                          IN  <<[id |-> p.doc_number, offset |-> blocks[i].offset,
                                 size |-> blocks[i].size, doc_type |-> p.doc_type,
                                 kind_code |-> p.kind_code, year |-> p.year]>>
                              \o Entries(i + 1)
    IN  Entries(1)

----------------------------------------------------------------------------
(* SpecFetch: one archive is scanned, then each entry the scan produced is  *)
(* fetched from the unchanged archive by its (offset, size).               *)

\* Members per tar archive, payload sizes, and tokens per inner XML.
MaxMembers == 2
MaxSize == 3
MaxXml == 4

MemberNames == {[stem |-> "1501.00963", ext |-> ".pdf"],
                [stem |-> "1501.00964", ext |-> ".gz"]}

\* Regular files of every size, and a directory (which has no data).
TarMembers ==
    [name : MemberNames, size : 0..MaxSize, isfile : {TRUE}]
    \cup {[name |-> [stem |-> "1501", ext |-> ""], size |-> 0, isfile |-> FALSE]}

TarArchives ==
    {TarBytes(ms, 1) : ms \in UNION {[1..n -> TarMembers] : n \in 0..MaxMembers}}

XmlTokens ==
    {[t |-> "decl"], [t |-> "text"],
     [t |-> "root", doc_type |-> "grant"],
     [t |-> "root", doc_type |-> "application"],
     [t |-> "pubref", doc_number |-> "11856789", kind_code |-> "B2", year |-> 2024],
     [t |-> "pubref", doc_number |-> "D1012345", kind_code |-> "None", year |-> 2024],
     [t |-> "pubref", doc_number |-> "20230000001", kind_code |-> "A1", year |-> 2023]}

XmlContents == UNION {[1..n -> XmlTokens] : n \in 0..MaxXml}

InitFetch ==
    /\ CacheIdle
    /\ RetIdle
    /\ IdxIdle
    /\ RaceIdle
    /\ \/ \E bytes \in TarArchives : input = [kind |-> "tar", bytes |-> bytes]
       \/ \E content \in XmlContents : input = [kind |-> "zip", bytes |-> content]
    /\ output = [entries |-> <<>>, scanned |-> FALSE, fetched |-> <<>>, blocks |-> <<>>]

fetchRest == <<cacheVars, retVars, idxVars, raceVars>>

\* process_tar_file_worker reads the archive.
ScanTar ==
    /\ input.kind = "tar"
    /\ ~ output.scanned
    /\ output' = [output EXCEPT !.scanned = TRUE, !.entries = TarScan(input.bytes, 0)]
    /\ UNCHANGED <<input, fetchRest>>

\* process_zip_file_worker reads the inner XML of the archive.
ScanZip ==
    /\ input.kind = "zip"
    /\ ~ output.scanned
    /\ output' = [output EXCEPT !.scanned = TRUE, !.entries = ZipScan(input.bytes),
                                !.blocks = SplitXmlOnDeclarations(input.bytes)]
    /\ UNCHANGED <<input, fetchRest>>

\* _get_from_local for the next entry of the scan.
FetchEntry ==
    /\ output.scanned
    /\ Len(output.fetched) < Len(output.entries)
    /\ LET e == output.entries[Len(output.fetched) + 1]
       IN  output' = [output EXCEPT
                        !.fetched = Append(@, ReadRange(input.bytes, e.offset, e.size))]
    /\ UNCHANGED <<input, fetchRest>>

NextFetch ==
    \/ ScanTar
    \/ ScanZip
    \/ FetchEntry

SpecFetch == InitFetch /\ [][NextFetch]_vars

----------------------------------------------------------------------------
(* The identifier normalizers (parse_paper_id, parse_patent_id).           *)
(* A string is a sequence of one-character strings.                        *)

DigitChars == <<"0", "1", "2", "3", "4", "5", "6", "7", "8", "9">>
UpperChars ==
    <<"A", "B", "C", "D", "E", "F", "G", "H", "I", "J", "K", "L", "M", "N",
      "O", "P", "Q", "R", "S", "T", "U", "V", "W", "X", "Y", "Z">>
LowerChars ==
    <<"a", "b", "c", "d", "e", "f", "g", "h", "i", "j", "k", "l", "m", "n",
      "o", "p", "q", "r", "s", "t", "u", "v", "w", "x", "y", "z">>

Range(q) == {q[i] : i \in 1..Len(q)}

IsDigit(c) == c \in Range(DigitChars)
IsUpper(c) == c \in Range(UpperChars)
\* str.strip() and \s: whitespace
IsSpace(c) == c \in {" ", "\t", "\n"}

IndexIn(q, c) == CHOOSE i \in 1..Len(q) : q[i] = c

\* str.lower() and str.upper(), on one character and on a string
LowerChar(c) == IF IsUpper(c) THEN LowerChars[IndexIn(UpperChars, c)] ELSE c
UpperChar(c) ==
    IF c \in Range(LowerChars) THEN UpperChars[IndexIn(LowerChars, c)] ELSE c
LowerStr(str) == [i \in 1..Len(str) |-> LowerChar(str[i])]
UpperStr(str) == [i \in 1..Len(str) |-> UpperChar(str[i])]

StartsWith(str, prefix) ==
    Len(str) >= Len(prefix) /\ SubSeq(str, 1, Len(prefix)) = prefix

Drop(str, n) == SubSeq(str, n + 1, Len(str))

RECURSIVE LStrip(_)
LStrip(str) ==
    IF str # <<>> /\ IsSpace(str[1]) THEN LStrip(Tail(str)) ELSE str

RECURSIVE RStrip(_)
RStrip(str) ==
    IF str # <<>> /\ IsSpace(str[Len(str)])
    THEN RStrip(SubSeq(str, 1, Len(str) - 1)) ELSE str

\* str.strip()
Strip(str) == RStrip(LStrip(str))

\* The length of the longest run of digits that ends the string.
RECURSIVE TrailingDigits(_)
TrailingDigits(str) ==
    IF str # <<>> /\ IsDigit(str[Len(str)])
    THEN 1 + TrailingDigits(SubSeq(str, 1, Len(str) - 1)) ELSE 0

\* int(digits)
RECURSIVE StrToInt(_)
StrToInt(digits) ==
    IF digits = <<>> THEN 0
    ELSE 10 * StrToInt(SubSeq(digits, 1, Len(digits) - 1))
         + (IndexIn(DigitChars, digits[Len(digits)]) - 1)

\* str(n) for n >= 0, as an f-string formats it
RECURSIVE IntToStr(_)
IntToStr(n) ==
    IF n < 10 THEN <<DigitChars[n + 1]>>
    ELSE IntToStr(n \div 10) \o <<DigitChars[(n % 10) + 1]>>

\* The literal parts of the URL patterns, in lower case.
SchemeHttp == <<"h", "t", "t", "p", ":", "/", "/">>
SchemeHttps == <<"h", "t", "t", "p", "s", ":", "/", "/">>
HostExport == <<"e", "x", "p", "o", "r", "t", ".">>
HostArxiv == <<"a", "r", "x", "i", "v", ".", "o", "r", "g", "/">>
PathAbs == <<"a", "b", "s", "/">>
PathPdf == <<"p", "d", "f", "/">>
DotPdf == <<".", "p", "d", "f">>
ArxivColon == <<"a", "r", "x", "i", "v", ":">>

\* https?://(?:export\.)?arxiv\.org/(?:abs|pdf)/
UrlPrefixes ==
    {scheme \o export \o HostArxiv \o path :
        scheme \in {SchemeHttp, SchemeHttps}, export \in {<<>>, HostExport},
        path \in {PathAbs, PathPdf}}

\* The URL patterns, matched ignoring case: group(1) of the first pattern
\* that matches, or no match (the empty set). The first pattern ends in
\* (.+?)(?:\.pdf)?$, so the group is what follows the prefix less one trailing
\* ".pdf"; it is never empty and "." does not match a newline. Whenever the
\* first pattern fails the second does too, so a query string stays in the
\* group.
UrlGroup(paper_id) ==
    LET low  == LowerStr(paper_id)
        hits == {u \in UrlPrefixes : StartsWith(low, u)}
    IN  IF hits = {} THEN {}
        ELSE LET rest == Drop(paper_id, Len(CHOOSE u \in hits : TRUE))
                 n    == Len(rest)
             IN  IF n = 0 \/ "\n" \in Range(rest) THEN {}
                 ELSE IF n > 4 /\ LowerStr(SubSeq(rest, n - 3, n)) = DotPdf
                 THEN {SubSeq(rest, 1, n - 4)}
                 ELSE {rest}

\* re.sub(r'^arxiv:\s*', '', paper_id, flags=re.IGNORECASE)
StripArxivPrefix(paper_id) ==
    IF StartsWith(LowerStr(paper_id), ArxivColon)
    THEN LStrip(Drop(paper_id, Len(ArxivColon)))
    ELSE paper_id

\* re.search(r'v(\d+)$', paper_id): where the match starts, or no match.
VersionMatch(paper_id) ==
    LET k == TrailingDigits(paper_id)
        n == Len(paper_id)
    IN  IF k >= 1 /\ n > k /\ paper_id[n - k] = "v" THEN {n - k} ELSE {}

\* "astro-ph/0412561" -> "astro-ph0412561": with exactly one slash (two
\* parts) the parts are joined.
JoinLegacy(paper_id) ==
    LET slashes == {i \in 1..Len(paper_id) : paper_id[i] = "/"}
    IN  IF Cardinality(slashes) = 1
        THEN LET i == CHOOSE x \in slashes : TRUE
             IN  SubSeq(paper_id, 1, i - 1) \o Drop(paper_id, i)
        ELSE paper_id

\* A slip: the version suffix is left on the base id.
ParsePaperId_KeepSuffix(paper_id) ==
    LET stripped == Strip(paper_id)
        url      == UrlGroup(stripped)
        unframed == IF url # {} THEN CHOOSE g \in url : TRUE ELSE stripped
        bare     == StripArxivPrefix(unframed)
        vm       == VersionMatch(bare)
    IN  IF vm # {}
        THEN LET start == CHOOSE i \in vm : TRUE
             IN  [base    |-> JoinLegacy(bare),
                  version |-> StrToInt(Drop(bare, start))]
        ELSE [base |-> JoinLegacy(bare), version |-> NoVer]

\* parse_paper_id: (base_id, version), version None shown as NoVer.
ParsePaperId(paper_id) ==
    LET stripped == Strip(paper_id)
        url      == UrlGroup(stripped)
        unframed == IF url # {} THEN CHOOSE g \in url : TRUE ELSE stripped
        bare     == StripArxivPrefix(unframed)
        vm       == VersionMatch(bare)
    IN  IF vm # {}
        THEN LET start == CHOOSE i \in vm : TRUE
             IN  [base    |-> JoinLegacy(SubSeq(bare, 1, start - 1)),
                  version |-> StrToInt(Drop(bare, start))]
        ELSE [base |-> JoinLegacy(bare), version |-> NoVer]

\* normalize_paper_id
NormalizePaperId(paper_id) == ParsePaperId(paper_id).base

\* The string a manifest key stands for: f"{base_id}v{version}", or the
\* base id.
KeyString(k) ==
    IF k.ver = NoVer THEN k.base ELSE k.base \o <<"v">> \o IntToStr(k.ver)

\* re.search(r'([A-Z]\d?)$', pid): where the match starts, or no match.
KindMatch(pid) ==
    LET n == Len(pid)
    IN  IF n >= 2 /\ IsUpper(pid[n - 1]) /\ IsDigit(pid[n]) THEN {n - 1}
        ELSE IF n >= 1 /\ IsUpper(pid[n]) THEN {n}
        ELSE {}

\* bare.isdigit() or re.match(r'^(D|RE|PP)\d', bare), for a non-empty bare
LooksLikeNumber(bare) ==
    \/ \A i \in 1..Len(bare) : IsDigit(bare[i])
    \/ Len(bare) >= 2 /\ bare[1] = "D" /\ IsDigit(bare[2])
    \/ Len(bare) >= 3 /\ SubSeq(bare, 1, 2) \in {<<"R", "E">>, <<"P", "P">>}
          /\ IsDigit(bare[3])

\* A slip: the split is accepted whatever is left of the kind code.
ParsePatentId_AnyBare(patent_id) ==
    LET stripped == Strip(patent_id)
        pid == IF StartsWith(UpperStr(stripped), <<"U", "S">>)
               THEN Drop(stripped, 2) ELSE stripped
        km  == KindMatch(pid)
    IN  IF km # {}
        THEN LET start == CHOOSE i \in km : TRUE
                 bare  == SubSeq(pid, 1, start - 1)
             IN  [pid |-> bare, kind_code |-> {Drop(pid, start - 1)}]
        ELSE [pid |-> pid, kind_code |-> {}]

\* parse_patent_id: (bare number, kind code or None)
ParsePatentId(patent_id) ==
    LET stripped == Strip(patent_id)
        pid == IF StartsWith(UpperStr(stripped), <<"U", "S">>)
               THEN Drop(stripped, 2) ELSE stripped
        km  == KindMatch(pid)
    IN  IF km # {}
        THEN LET start == CHOOSE i \in km : TRUE
                 bare  == SubSeq(pid, 1, start - 1)
             IN  IF bare # <<>> /\ LooksLikeNumber(bare)
                 THEN [pid |-> bare, kind_code |-> {Drop(pid, start - 1)}]
                 ELSE [pid |-> pid, kind_code |-> {}]
        ELSE [pid |-> pid, kind_code |-> {}]

\* normalize_patent_id
NormalizePatentId(patent_id) == ParsePatentId(patent_id).pid

----------------------------------------------------------------------------
(* SpecNorm: one identifier is normalized, and its normal form normalized  *)
(* again; or one arXiv identifier is parsed and resolved.                  *)

\* The identifiers of the supported forms are put together from these.
ModernId == <<"1", "5", "0", "1", ".", "0", "0", "9", "6", "3">>
LegacyCategory == <<"a", "s", "t", "r", "o", "-", "p", "h">>
SubjectCategory == <<"c", "s", ".", "C", "V">>
LegacyNumber == <<"0", "4", "1", "2", "5", "6", "1">>

\* The largest version number asked for.
MaxVersion == 11

ArxivIds ==
    {ModernId, LegacyCategory \o <<"/">> \o LegacyNumber,
     LegacyCategory \o LegacyNumber, SubjectCategory \o <<"/">> \o LegacyNumber}

VersionSuffixes == {<<>>} \cup {<<"v">> \o IntToStr(v) : v \in {1, MaxVersion}}

\* An identifier as it is, with "arXiv:" before it, or as an abs or pdf URL.
Framed(id) ==
    {id, <<"a", "r", "X", "i", "v", ":">> \o id, ArxivColon \o id,
     <<"a", "r", "X", "i", "v", ":", " ">> \o id,
     SchemeHttps \o HostArxiv \o PathAbs \o id,
     SchemeHttp \o HostExport \o HostArxiv \o PathAbs \o id,
     SchemeHttps \o HostArxiv \o PathPdf \o id,
     SchemeHttps \o HostArxiv \o PathPdf \o id \o DotPdf}

Padded(str) == {str, <<" ">> \o str \o <<" ", "\n">>}

PaperForms ==
    UNION {Padded(x) : x \in UNION {Framed(id \o suffix) :
                                       id \in ArxivIds, suffix \in VersionSuffixes}}

UtilityNumber == <<"1", "1", "1", "2", "3", "4", "5", "6">>
ApplicationNumber == <<"2", "0", "2", "0", "0", "1", "2", "3", "4", "5", "6">>
DesignNumber == <<"D", "0", "9", "8", "7", "6", "5", "4">>
ReissueNumber == <<"R", "E", "1", "2", "3", "4", "5">>
PlantNumber == <<"P", "P", "1", "2", "3", "4", "5">>

\* Numbers of full length, and the shortest a form allows.
PatentNumbers ==
    {UtilityNumber, ApplicationNumber, DesignNumber, ReissueNumber, PlantNumber,
     <<"1">>, <<"D", "1">>, <<"R", "E", "1">>, <<"P", "P", "1">>}

KindCodes == {<<>>, <<"B", "2">>, <<"A", "1">>, <<"S">>, <<"E">>, <<"P", "2">>}

PatentForms ==
    UNION {Padded(us \o number \o kind) :
              us \in {<<>>, <<"U", "S">>, <<"u", "s">>},
              number \in PatentNumbers, kind \in KindCodes}

\* The ids that are parsed and resolved with a version: an id in any
\* frame that a suffix can follow, and a version number.
LegalIds ==
    UNION {Framed(id) \ {SchemeHttps \o HostArxiv \o PathPdf \o id \o DotPdf} :
              id \in ArxivIds \ {SubjectCategory \o <<"/">> \o LegacyNumber}}

NoOutput == [step |-> 0, once |-> <<>>, twice |-> <<>>,
             parsed |-> [base |-> <<>>, version |-> NoVer],
             resolved |-> [lookup_id |-> <<>>, requested_version |-> NoVer,
                           version_required |-> FALSE]]

InitNorm ==
    /\ CacheIdle
    /\ RetIdle
    /\ IdxIdle
    /\ RaceIdle
    /\ \/ \E str \in PaperForms : input = [kind |-> "paper", str |-> str, v |-> NoVer]
       \/ \E str \in PatentForms : input = [kind |-> "patent", str |-> str, v |-> NoVer]
       \/ \E id \in LegalIds : \E v \in {NoVer} \cup (1..MaxVersion) :
             input = [kind |-> "resolve", str |-> id, v |-> v]
    /\ output = NoOutput

normRest == <<cacheVars, retVars, idxVars, raceVars>>

\* normalize_paper_id(X), then normalize_paper_id of the result
NormalizePaper ==
    /\ input.kind = "paper"
    /\ output.step < 2
    /\ output' = IF output.step = 0
                 THEN [output EXCEPT !.step = 1, !.once = NormalizePaperId(input.str)]
                 ELSE [output EXCEPT !.step = 2, !.twice = NormalizePaperId(output.once)]
    /\ UNCHANGED <<input, normRest>>

\* normalize_patent_id(X), then normalize_patent_id of the result
NormalizePatent ==
    /\ input.kind = "patent"
    /\ output.step < 2
    /\ output' = IF output.step = 0
                 THEN [output EXCEPT !.step = 1, !.once = NormalizePatentId(input.str)]
                 ELSE [output EXCEPT !.step = 2, !.twice = NormalizePatentId(output.once)]
    /\ UNCHANGED <<input, normRest>>

\* The string the caller passes: "<id>v<v>", or the id alone.
Versioned(id, v) == IF v = NoVer THEN id ELSE id \o <<"v">> \o IntToStr(v)

\* _resolve_paper_id("<id>v<v>") or _resolve_paper_id("<id>"): the parse,
\* and the lookup key as a string.
ResolvePaper ==
    /\ input.kind = "resolve"
    /\ output.step = 0
    /\ LET p == ParsePaperId(Versioned(input.str, input.v))
           r == ResolvePaperId(p.base, p.version)
       IN  output' = [output EXCEPT
                        !.step = 1, !.parsed = p,
                        !.resolved = [lookup_id |-> KeyString(r.lookup_id),
                                      requested_version |-> r.requested_version,
                                      version_required |-> r.version_required]]
    /\ UNCHANGED <<input, normRest>>

NextNorm ==
    \/ NormalizePaper
    \/ NormalizePatent
    \/ ResolvePaper

SpecNorm == InitNorm /\ [][NextNorm]_vars

----------------------------------------------------------------------------
(* PatentRetriever (patent_retriever.py)                                   *)

\* _lookup_patent_metadata
LookupPatentMetadata(index, patent_id) ==
    IF patent_id \notin DOMAIN index THEN {}
    ELSE {[patent_id    |-> patent_id,
           archive_file |-> index[patent_id].archive_file,
           offset       |-> index[patent_id].offset,
           size         |-> index[patent_id].size,
           doc_type     |-> index[patent_id].doc_type,
           kind_code    |-> index[patent_id].kind_code,
           year         |-> index[patent_id].year]}

\* PatentRetriever._get_from_local: the block at (offset, size) of the inner
\* XML, or None when the id has no row, no bulk directory is configured, the
\* ZIP is not on disk, holds no .xml, or cannot be read.
PatentGetFromLocal(index, st, patent_id, zip) ==
    IF patent_id \notin DOMAIN index THEN {}
    ELSE IF ~ st.bulk_dir THEN {}
    ELSE IF zip # "present" THEN {}
    ELSE {Blob(patent_id, "xml", index[patent_id].size)}

\* PatentRetriever._get_from_upstream: one GET <upstream>/patent/<id>, made
\* only with an upstream URL configured and enabled.
PatentUpstreamOn(st) == st.upstream_url /\ st.upstream_enabled

PatentGetFromUpstream(st, patent_id, resp) ==
    IF ~ PatentUpstreamOn(st) THEN {}
    ELSE IF resp.status = "200" THEN {Blob(patent_id, "xml", resp.len)}
    ELSE {}

PatentNotFound ==
    [content |-> {}, content_type |-> "", error |-> "not_found", patent_id |-> <<>>,
     kind_code |-> {}, doc_type |-> "", source |-> ""]

\* success_response of get_patent_by_id
PatentSuccess(content, source, bare_id, requested_kind, metadata) ==
    [content      |-> {content},
     content_type |-> "application/xml",
     error        |-> "none",
     patent_id    |-> bare_id,
     kind_code    |-> IF metadata # {} /\ (CHOOSE m \in metadata : TRUE).kind_code # {}
                      THEN (CHOOSE m \in metadata : TRUE).kind_code
                      ELSE requested_kind,
     doc_type     |-> IF metadata # {} THEN (CHOOSE m \in metadata : TRUE).doc_type
                      ELSE "unknown",
     source       |-> source]

\* A slip: the upstream server is asked before the local archive is read.
GetPatentById_UpstreamFirst(index, st, patent_id, env) ==
    LET parsed   == ParsePatentId(patent_id)
        metadata == LookupPatentMetadata(index, parsed.pid)
        lres     == PatentGetFromLocal(index, st, parsed.pid, env.zip)
        ures     == PatentGetFromUpstream(st, parsed.pid, env.up)
        utr      == IF PatentUpstreamOn(st) THEN <<Consulted("upstream", ures)>> ELSE <<>>
    IN  IF ures # {}
        THEN [response |-> PatentSuccess(CHOOSE c \in ures : TRUE, "upstream",
                                         parsed.pid, parsed.kind_code, metadata),
              trace |-> utr]
        ELSE IF lres # {}
        THEN [response |-> PatentSuccess(CHOOSE c \in lres : TRUE, "local",
                                         parsed.pid, parsed.kind_code, metadata),
              trace |-> utr \o <<Consulted("local", lres)>>]
        ELSE [response |-> PatentNotFound,
              trace |-> utr \o <<Consulted("local", lres)>>]

\* get_patent_by_id(patent_id): the response and the tiers consulted, in
\* order (the upstream tier counts as consulted when it issues a request).
GetPatentById(index, st, patent_id, env) ==
    LET parsed   == ParsePatentId(patent_id)
        metadata == LookupPatentMetadata(index, parsed.pid)
        lres     == PatentGetFromLocal(index, st, parsed.pid, env.zip)
        ures     == PatentGetFromUpstream(st, parsed.pid, env.up)
        utr      == IF PatentUpstreamOn(st) THEN <<Consulted("upstream", ures)>> ELSE <<>>
    IN  IF lres # {}
        THEN [response |-> PatentSuccess(CHOOSE c \in lres : TRUE, "local",
                                         parsed.pid, parsed.kind_code, metadata),
              trace |-> <<Consulted("local", lres)>>]
        ELSE IF ures # {}
        THEN [response |-> PatentSuccess(CHOOSE c \in ures : TRUE, "upstream",
                                         parsed.pid, parsed.kind_code, metadata),
              trace |-> <<Consulted("local", lres)>> \o utr]
        ELSE [response |-> PatentNotFound,
              trace |-> <<Consulted("local", lres)>> \o utr]

----------------------------------------------------------------------------
(* SpecPat: get_patent_by_id called again and again on one PatentRetriever. *)
(* paper_index holds the rows of patent_index, keyed by bare number.       *)

PatentRows ==
    {[archive_file |-> "PTGRXML/ipg240102.zip", offset |-> 0, size |-> 2,
      doc_type |-> "grant", kind_code |-> {<<"B", "2">>}, year |-> 2024],
     [archive_file |-> "PTGRXML/ipg240102.zip", offset |-> 2, size |-> 3,
      doc_type |-> "unknown", kind_code |-> {}, year |-> 2024]}

PatentManifests ==
    UNION { [ks -> PatentRows] : ks \in SUBSET {UtilityNumber, ReissueNumber} }

\* What callers ask for: the indexed numbers in several spellings, and an
\* arXiv-style version suffix, which is no part of a patent id.
PatentRequests ==
    {UtilityNumber, <<"U", "S">> \o UtilityNumber \o <<"B", "2">>,
     <<"u", "s">> \o UtilityNumber, ReissueNumber \o <<"E">>,
     UtilityNumber \o <<"v", "2">>, DesignNumber \o <<"S">>}

ZipStates == {"present", "missing", "corrupt", "no_xml"}

PatentHttpResponses ==
    {[status |-> "200", len |-> 2], [status |-> "404", len |-> 0],
     [status |-> "500", len |-> 0], [status |-> "timeout", len |-> 0]}

InitPat ==
    /\ CacheIdle
    /\ IdxIdle
    /\ RaceIdle
    /\ PureIdle
    /\ paper_index \in PatentManifests
    /\ settings \in [bulk_dir : BOOLEAN, upstream_url : BOOLEAN,
                     upstream_enabled : BOOLEAN]
    /\ request = <<>>
    /\ response = PatentNotFound
    /\ trace = <<>>

\* One call of get_patent_by_id.
GetPatent(patent_id) ==
    /\ now < MaxCalls
    /\ \E zip \in ZipStates : \E up \in PatentHttpResponses :
          LET r == GetPatentById(paper_index, settings, patent_id,
                                 [zip |-> zip, up |-> up])
          IN  /\ response' = r.response
              /\ trace' = r.trace
    /\ request' = patent_id
    /\ now' = now + 1
    /\ UNCHANGED <<files, touched, lastOp, paper_index, settings, idxVars, pureVars, raceVars>>

NextPat == \E patent_id \in PatentRequests : GetPatent(patent_id)

SpecPat == InitPat /\ [][NextPat]_vars

----------------------------------------------------------------------------
(* SpecRace: two threads call put and get of one PaperCache on one key.    *)
(* Each call is a sequence of system calls; the calls of the two threads   *)
(* interleave. fs.link is the inode the key's path names (0: no such       *)
(* file), fs.data[i] the bytes of inode i.                                 *)

Threads == {"t1", "t2"}

\* Calls per thread.
MaxThreadCalls == 2

\* The blobs put is called with: thread t's blob of n bytes.
RaceLens == {2, 3}

RECURSIVE RaceBytes(_, _, _)
RaceBytes(t, n, i) ==
    IF i > n THEN <<>> ELSE <<[by |-> t, len |-> n, i |-> i]>> \o RaceBytes(t, n, i + 1)

RaceBlob(t, n) == RaceBytes(t, n, 1)

CompleteBlobs == {RaceBlob(t, n) : t \in Threads, n \in RaceLens}

IdleThread == [pc |-> "idle", calls |-> 0, content |-> <<>>, evict |-> FALSE,
               ino |-> 0, pos |-> 0, read |-> <<>>,
               result |-> [op |-> "none", value |-> {}]]

InitRace ==
    /\ CacheIdle
    /\ RetIdle
    /\ IdxIdle
    /\ PureIdle
    /\ fs = [link |-> 0, data |-> <<>>]
    /\ threads = [t \in Threads |-> IdleThread]

raceRest == <<cacheVars, retVars, idxVars, pureVars>>

\* The bytes of a file after a write of bytes at offset pos.
WriteAt(content, pos, bytes) ==
    LET hole == Fill([by |-> "hole", len |-> 0, i |-> 0], pos - Len(content))
        head == SubSeq(content, 1, Min(pos, Len(content))) \o hole
        tail == SubSeq(content, pos + Len(bytes) + 1, Len(content))
    IN  head \o bytes \o tail

\* put(paper_id, content) is called: the size test passes (the blob fits).
PutCall(t) ==
    /\ threads[t].pc = "idle"
    /\ threads[t].calls < MaxThreadCalls
    /\ \E n \in RaceLens :
          /\ n <= max_size_bytes
          /\ threads' = [threads EXCEPT ![t].pc = "put_stat",
                                        ![t].calls = @ + 1,
                                        ![t].content = RaceBlob(t, n)]
    /\ UNCHANGED <<fs, raceRest>>

\* _evict_if_needed: _get_cache_entries() lists the directory and sums the
\* sizes; eviction is needed when they exceed the target.
PutStat(t) ==
    /\ threads[t].pc = "put_stat"
    /\ LET current_size == IF fs.link = 0 THEN 0 ELSE Len(fs.data[fs.link])
           target_size  == max_size_bytes - Len(threads[t].content)
       IN  threads' = [threads EXCEPT
                         ![t].pc = IF current_size <= target_size
                                   THEN "put_open" ELSE "put_unlink"]
    /\ UNCHANGED <<fs, raceRest>>

\* _evict_if_needed: path.unlink() of the listed entry (an OSError, when the
\* file is gone by now, is logged).
PutUnlink(t) ==
    /\ threads[t].pc = "put_unlink"
    /\ fs' = [fs EXCEPT !.link = 0]
    /\ threads' = [threads EXCEPT ![t].pc = "put_open"]
    /\ UNCHANGED raceRest

\* cache_path.write_bytes(content): open(path, 'wb') creates the file or
\* truncates the one that is there.
PutOpen(t) ==
    /\ threads[t].pc = "put_open"
    /\ IF fs.link = 0
       THEN /\ fs' = [link |-> Len(fs.data) + 1, data |-> Append(fs.data, <<>>)]
            /\ threads' = [threads EXCEPT ![t].pc = "put_write", ![t].pos = 0,
                                          ![t].ino = Len(fs.data) + 1]
       ELSE /\ fs' = [fs EXCEPT !.data[fs.link] = <<>>]
            /\ threads' = [threads EXCEPT ![t].pc = "put_write", ![t].pos = 0,
                                          ![t].ino = fs.link]
    /\ UNCHANGED raceRest

\* cache_path.write_bytes(content): the bytes reach the file in one write or
\* in several; after the last one the file is closed and put returns True.
PutWrite(t) ==
    /\ threads[t].pc = "put_write"
    /\ LET th == threads[t]
       IN  \E k \in 1..(Len(th.content) - th.pos) :
              /\ fs' = [fs EXCEPT !.data[th.ino] =
                           WriteAt(@, th.pos, SubSeq(th.content, th.pos + 1, th.pos + k))]
              /\ threads' =
                    IF th.pos + k = Len(th.content)
                    THEN [threads EXCEPT ![t].pc = "idle", ![t].pos = 0, ![t].ino = 0,
                                         ![t].content = <<>>,
                                         ![t].result = [op |-> "put", value |-> {}]]
                    ELSE [threads EXCEPT ![t].pos = th.pos + k]
    /\ UNCHANGED raceRest

\* get(paper_id) is called: cache_path.exists(); None when there is no file.
GetCall(t) ==
    /\ threads[t].pc = "idle"
    /\ threads[t].calls < MaxThreadCalls
    /\ threads' = IF fs.link = 0
                  THEN [threads EXCEPT ![t].calls = @ + 1,
                                       ![t].result = [op |-> "get", value |-> {}]]
                  ELSE [threads EXCEPT ![t].calls = @ + 1, ![t].pc = "get_read"]
    /\ UNCHANGED <<fs, raceRest>>

\* cache_path.read_bytes(): the bytes the file holds now; the OSError of a
\* file that is gone makes get return None.
GetRead(t) ==
    /\ threads[t].pc = "get_read"
    /\ threads' = IF fs.link = 0
                  THEN [threads EXCEPT ![t].pc = "idle",
                                       ![t].result = [op |-> "get", value |-> {}]]
                  ELSE [threads EXCEPT ![t].pc = "get_utime",
                                       ![t].read = fs.data[fs.link]]
    /\ UNCHANGED <<fs, raceRest>>

\* os.utime(cache_path, None), then get returns what it read; the OSError of
\* a file that is gone makes get return None.
GetUtime(t) ==
    /\ threads[t].pc = "get_utime"
    /\ threads' = [threads EXCEPT
                     ![t].pc = "idle", ![t].read = <<>>,
                     ![t].result = [op |-> "get",
                                    value |-> IF fs.link = 0 THEN {}
                                              ELSE {threads[t].read}]]
    /\ UNCHANGED <<fs, raceRest>>

NextRace ==
    \E t \in Threads :
        \/ PutCall(t)
        \/ PutStat(t)
        \/ PutUnlink(t)
        \/ PutOpen(t)
        \/ PutWrite(t)
        \/ GetCall(t)
        \/ GetRead(t)
        \/ GetUtime(t)

SpecRace == InitRace /\ [][NextRace]_vars

----------------------------------------------------------------------------
(* SpecUpsert: entries are committed to paper_index one batch at a time    *)
(* and looked up. Here the table is the set of its rows, each with all the *)
(* columns the indexer writes.                                             *)

\* Committed upserts per behaviour.
MaxUpserts == 3

\* The entries a scan may hand to the coordinator.
UpsertEntries ==
    [paper_id : {"1501.00963", "1501.00964"},
     archive_file : {"2015/arXiv_src_1501_001.tar", "2015/arXiv_pdf_1501_001.tar"},
     offset : {512, 2048}, size : {2}, file_type : {"pdf", "gzip"}, year : {2015}]

\* A slip: a plain INSERT into a table without primary key.
InsertOrReplace_NoKey(rows, entry) ==
    rows \cup {entry}

\* INSERT OR REPLACE INTO paper_index: paper_id is the PRIMARY KEY, so a row
\* with the same paper_id is deleted before the new row is inserted.
InsertOrReplace(rows, entry) ==
    {r \in rows : r.paper_id # entry.paper_id} \cup {entry}

\* _lookup_paper_metadata on the set of rows: what fetchone() may return
\* for SELECT ... WHERE paper_id = ?, as the dict built from it (None is the
\* empty set).
LookupPaperRow(rows, paper_id) ==
    {[paper_id     |-> paper_id,
      archive_file |-> r.archive_file,
      offset       |-> r.offset,
      size         |-> r.size,
      file_type    |-> r.file_type,
      year         |-> r.year,
      format       |-> GetFormatFromFileType(r.file_type)] :
        r \in {x \in rows : x.paper_id = paper_id}}

InitUpsert ==
    /\ CacheIdle
    /\ IdxIdle
    /\ RaceIdle
    /\ paper_index = {}
    /\ settings = [cache |-> TRUE, upstream |-> FALSE, arxiv |-> FALSE]
    /\ request = NoRequest
    /\ response = ErrorResponse("")
    /\ trace = <<>>
    /\ input = <<>>
    /\ output = [looked_up |-> FALSE, result |-> {}]

upsertRest == <<cacheVars, settings, request, response, trace, idxVars, raceVars>>

\* The coordinator's executemany of one entry and its conn.commit(); input
\* keeps the entries committed so far, in order.
UpsertEntry(entry) ==
    /\ Len(input) < MaxUpserts
    /\ paper_index' = InsertOrReplace(paper_index, entry)
    /\ input' = Append(input, entry)
    /\ output' = [looked_up |-> FALSE, result |-> {}]
    /\ UNCHANGED upsertRest

\* _lookup_paper_metadata of the id committed last.
LookupLast ==
    /\ Len(input) > 0
    /\ ~ output.looked_up
    /\ \E r \in (IF LookupPaperRow(paper_index, input[Len(input)].paper_id) = {}
                 THEN {{}}
                 ELSE {{x} : x \in LookupPaperRow(paper_index,
                                                 input[Len(input)].paper_id)}) :
          output' = [looked_up |-> TRUE, result |-> r]
    /\ UNCHANGED <<paper_index, input, upsertRest>>

NextUpsert ==
    \/ \E entry \in UpsertEntries : UpsertEntry(entry)
    \/ LookupLast

SpecUpsert == InitUpsert /\ [][NextUpsert]_vars

----------------------------------------------------------------------------
(* Years: the tar-location hint and the indexer's filename year.           *)

ArxivUnderscore == <<"a", "r", "X", "i", "v", "_">>
DotTar == <<".", "t", "a", "r">>

AllDigits(str) == \A i \in 1..Len(str) : IsDigit(str[i])

\* re.match(r'^(\d{2})(\d{2})\.(\d+)$', base_id)
ModernMatch(base_id) ==
    /\ Len(base_id) >= 6
    /\ AllDigits(SubSeq(base_id, 1, 4))
    /\ base_id[5] = "."
    /\ AllDigits(Drop(base_id, 5))

\* re.match(r'^([a-z-]+)(\d{2})(\d{2})(\d+)$', base_id, re.IGNORECASE): the
\* category (letters and hyphens) before a run of at least five digits, or
\* no match.
OldMatch(base_id) ==
    LET k == TrailingDigits(base_id)
        category == SubSeq(base_id, 1, Len(base_id) - k)
    IN  IF /\ k >= 5
           /\ category # <<>>
           /\ \A i \in 1..Len(category) :
                 LowerChar(category[i]) \in Range(LowerChars) \cup {"-"}
        THEN {category}
        ELSE {}

\* The hint's year for the two digits yy: "2000 + int(yy) if int(yy) < 90
\* else 1900 + int(yy)".
HintYear(yy) == IF StrToInt(yy) < 90 THEN 2000 + StrToInt(yy) ELSE 1900 + StrToInt(yy)

\* get_expected_tar_pattern: the hint, or None.
GetExpectedTarPattern(paper_id) ==
    LET base_id == ParsePaperId(paper_id).base
        old     == OldMatch(base_id)
    IN  IF ModernMatch(base_id)
        THEN LET yymm == SubSeq(base_id, 1, 4)
             IN  {[year_dir    |-> IntToStr(HintYear(SubSeq(base_id, 1, 2))),
                   yymm        |-> yymm,
                   pdf_pattern |-> ArxivUnderscore \o <<"p", "d", "f", "_">> \o yymm
                                     \o <<"_", "*">> \o DotTar,
                   src_pattern |-> ArxivUnderscore \o <<"s", "r", "c", "_">> \o yymm
                                     \o <<"_", "*">> \o DotTar,
                   category    |-> {}]}
        ELSE IF old # {}
        THEN LET category == CHOOSE c \in old : TRUE
                 yymm     == SubSeq(base_id, Len(category) + 1, Len(category) + 4)
             IN  {[year_dir    |-> IntToStr(HintYear(SubSeq(yymm, 1, 2))),
                   yymm        |-> yymm,
                   pdf_pattern |-> ArxivUnderscore \o <<"p", "d", "f", "_">> \o category
                                     \o <<"_">> \o yymm \o <<"_", "*">> \o DotTar,
                   src_pattern |-> ArxivUnderscore \o <<"s", "r", "c", "_">> \o category
                                     \o <<"_">> \o yymm \o <<"_", "*">> \o DotTar,
                   category    |-> {category}]}
        ELSE {}

\* arXiv_(pdf|src)_(\d{2})(\d{2})_\d{3}\.tar matches at position i.
BulkNameAt(filename, i) ==
    /\ i + 21 <= Len(filename)
    /\ SubSeq(filename, i, i + 5) = ArxivUnderscore
    /\ SubSeq(filename, i + 6, i + 8) \in {<<"p", "d", "f">>, <<"s", "r", "c">>}
    /\ filename[i + 9] = "_"
    /\ AllDigits(SubSeq(filename, i + 10, i + 13))
    /\ filename[i + 14] = "_"
    /\ AllDigits(SubSeq(filename, i + 15, i + 17))
    /\ SubSeq(filename, i + 18, i + 21) = DotTar

\* extract_year_from_filename: the year, or ValueError (the empty set).
ExtractYearFromFilename(filename) ==
    LET hits == {i \in 1..Len(filename) : BulkNameAt(filename, i)}
    IN  IF hits = {} THEN {}
        ELSE LET i  == CHOOSE x \in hits : \A y \in hits : x <= y
                 yy == StrToInt(SubSeq(filename, i + 10, i + 11))
             IN  {IF yy >= 91 THEN 1900 + yy ELSE 2000 + yy}

----------------------------------------------------------------------------
(* SpecYear: for one two-digit year, the hint of a modern id, the hint of  *)
(* a legacy id and the year of a bulk file name are computed.              *)

TwoDigitYears == 0..99

TwoDigits(n) == <<DigitChars[(n \div 10) + 1], DigitChars[(n % 10) + 1]>>

\* An id and a bulk file name of month 07 of year yy.
ModernIdOf(yy) == TwoDigits(yy) \o <<"0", "7", ".", "0", "0", "9", "6", "3">>
LegacyIdOf(yy) == LegacyCategory \o <<"/">> \o TwoDigits(yy) \o <<"0", "7", "0", "0", "1">>
BulkNameOf(yy, kind) ==
    ArxivUnderscore \o kind \o <<"_">> \o TwoDigits(yy) \o <<"0", "7", "_", "0", "0", "1">>
        \o DotTar

InitYear ==
    /\ CacheIdle
    /\ RetIdle
    /\ IdxIdle
    /\ RaceIdle
    /\ \E yy \in TwoDigitYears : input = [yy |-> yy]
    /\ output = [modern |-> {}, legacy |-> {}, filename |-> {}]

yearRest == <<cacheVars, retVars, idxVars, raceVars>>

\* get_expected_tar_pattern of a modern id
HintModern ==
    /\ output.modern = {}
    /\ output' = [output EXCEPT !.modern = GetExpectedTarPattern(ModernIdOf(input.yy))]
    /\ UNCHANGED <<input, yearRest>>

\* get_expected_tar_pattern of a legacy id
HintLegacy ==
    /\ output.legacy = {}
    /\ output' = [output EXCEPT !.legacy = GetExpectedTarPattern(LegacyIdOf(input.yy))]
    /\ UNCHANGED <<input, yearRest>>

\* extract_year_from_filename of a bulk file name
ExtractYear ==
    /\ output.filename = {}
    /\ \E kind \in {<<"p", "d", "f">>, <<"s", "r", "c">>} :
          output' = [output EXCEPT
                       !.filename = ExtractYearFromFilename(BulkNameOf(input.yy, kind))]
    /\ UNCHANGED <<input, yearRest>>

NextYear ==
    \/ HintModern
    \/ HintLegacy
    \/ ExtractYear

SpecYear == InitYear /\ [][NextYear]_vars

----------------------------------------------------------------------------
(* SpecDiag: get_detailed_error, called after a failed retrieval.          *)

\* What the world answers during one call: whether a statement raises, and
\* what os.path.exists and os.access say of each archive.
DiagRaises == {"none", "sqlite3.Error", "Exception"}
DiagDiskStates == {"present", "missing", "unreadable"}

DiagResult(error_type, tar_hint, similar_ids, archive_file) ==
    [error_type |-> error_type, tar_hint |-> tar_hint, similar_ids |-> similar_ids,
     archive_file |-> archive_file]

\* "SELECT paper_id FROM paper_index WHERE paper_id LIKE ? LIMIT 5" on the
\* first six characters of the id: the rows of the papers that share them
\* (in these manifests, the rows of the same base id).
SimilarIds(index, paper_id) == {k \in DOMAIN index : k.base = paper_id}

\* get_detailed_error(paper_id)
GetDetailedError(index, base, ver, raises, disk) ==
    LET paper_id == Key(base, NoVer)
        tar_hint == GetExpectedTarPattern(Versioned(ModernId, ver))
    IN  IF raises = "sqlite3.Error"
        THEN DiagResult("database_error", tar_hint, {}, {})
        ELSE IF raises = "Exception"
        THEN DiagResult("system_error", tar_hint, {}, {})
        ELSE IF DOMAIN index = {}
        THEN DiagResult("empty_database", tar_hint, {}, {})
        ELSE IF paper_id \notin DOMAIN index
        THEN DiagResult("paper_not_found", tar_hint, SimilarIds(index, base), {})
        ELSE IF disk[index[paper_id].archive_file] = "missing"
        THEN DiagResult("archive_missing", {}, {}, {index[paper_id].archive_file})
        ELSE IF disk[index[paper_id].archive_file] = "unreadable"
        THEN DiagResult("permission_denied", {}, {}, {})
        ELSE DiagResult("unknown_error", {}, {}, {})

InitDiag ==
    /\ CacheIdle
    /\ IdxIdle
    /\ RaceIdle
    /\ paper_index \in Manifests
    /\ settings = [cache |-> TRUE, upstream |-> FALSE, arxiv |-> FALSE]
    /\ request = NoRequest
    /\ response = ErrorResponse("")
    /\ trace = <<>>
    /\ input = <<>>
    /\ output = {}

diagRest == <<files, touched, lastOp, paper_index, settings, response, trace, idxVars,
              raceVars>>

\* One call of get_detailed_error.
DetailedError(ver) ==
    /\ now < MaxCalls
    /\ \E raises \in DiagRaises : \E disk \in [ArchiveFiles -> DiagDiskStates] :
          /\ input' = [raises |-> raises, disk |-> disk]
          /\ output' = {GetDetailedError(paper_index, ReqBase, ver, raises, disk)}
    /\ request' = [base |-> ReqBase, ver |-> ver, format |-> "none"]
    /\ now' = now + 1
    /\ UNCHANGED diagRest

NextDiag == \E ver \in {NoVer, 1} : DetailedError(ver)

SpecDiag == InitDiag /\ [][NextDiag]_vars

----------------------------------------------------------------------------
(* SpecSoft: one call of get_source_by_id in a world where tiers fail: the *)
(* cached file or the archive cannot be read, a request is answered with   *)
(* another status, times out or fails on the network.                      *)

\* "truncated", "emptied": the archive is shorter than when it was indexed.
SoftDiskStates == {"present", "missing", "unreadable", "truncated", "emptied"}

\* httpx.TimeoutException is "timeout", httpx.RequestError is "error".
FailedStatuses == {"500", "timeout", "error"}

SoftResponses ==
    HttpResponses \cup {[NoAnswer EXCEPT !.status = f] : f \in FailedStatuses}

\* The cache directory the call starts on: empty, or holding the paper.
SoftCaches ==
    {<<>>} \cup {CachePut(<<>>, <<>>, k, Blob(k, m, 2), 0) :
                    k \in {Key(ReqBase, NoVer), Key(ReqBase, 1)}, m \in {"%PDF", "gz"}}

InitSoft ==
    /\ files \in SoftCaches
    /\ now = 0
    /\ touched = <<>>
    /\ lastOp = NoOp
    /\ paper_index \in Manifests
    /\ settings \in [cache : BOOLEAN, upstream : BOOLEAN, arxiv : BOOLEAN]
    /\ request = NoRequest
    /\ response = ErrorResponse("")
    /\ trace = <<>>
    /\ IdxIdle
    /\ RaceIdle
    /\ input = QuietEnv
    /\ output = <<>>

\* The call. An answer the call never asks for is left at its QuietEnv value.
GetSourceFaulty(ver, format) ==
    /\ now = 0
    /\ \E entries \in GetCacheEntries(files) :
       LET p == Plan(paper_index, ReqBase, ver, format)
           t == now + 1
           cached == settings.cache /\ ~ p.local_format_mismatch
                       /\ p.lookup_id \in DOMAIN files
       IN
       \E cerr \in (IF cached THEN BOOLEAN ELSE {FALSE}) :
       \E disk \in (IF ~ p.local_format_mismatch /\ (~ cached \/ cerr)
                       /\ p.lookup_id \in DOMAIN paper_index
                    THEN [ArchiveFiles -> SoftDiskStates] ELSE {QuietEnv.disk}) :
       LET e2 == [QuietEnv EXCEPT !.cerr = cerr, !.disk = disk]
           l  == LocalTiers(p, paper_index, settings, files, entries, e2, t)
       IN
       \E up \in (IF ~ l.done /\ settings.upstream
                  THEN SoftResponses ELSE {NoAnswer}) :
       \E info \in (IF up.status = "200" THEN InfoResponses ELSE {{}}) :
       LET e3 == [e2 EXCEPT !.up = up, !.info = info]
           u  == UpstreamTier(p, settings, files, entries, format, e3, t)
           origin == ~ l.done /\ ~ u.done /\ settings.arxiv
           tryPdf == origin /\ format \in {"none", "preferred", "pdf"}
       IN
       \E pdf \in (IF tryPdf THEN SoftResponses ELSE {NoAnswer}) :
       \E src \in (IF /\ origin
                      /\ format \in {"none", "preferred", "source"}
                      /\ ~ (tryPdf /\ pdf.status \in {"timeout", "error"})
                      /\ ~ (tryPdf /\ pdf.status = "200" /\ pdf.magic = "%PDF")
                   THEN SoftResponses ELSE {NoAnswer}) :
       LET env == [e3 EXCEPT !.pdf = pdf, !.src = src]
           r   == GetSourceById(paper_index, settings, files, entries,
                                ReqBase, ver, format, env, t)
       IN  /\ files' = r.dir
           /\ response' = r.response
           /\ trace' = r.trace
           /\ request' = [base |-> ReqBase, ver |-> ver, format |-> format]
           /\ input' = env
    /\ now' = now + 1
    /\ UNCHANGED <<touched, lastOp, paper_index, settings, idxVars, output, raceVars>>

NextSoft ==
    \E ver \in Versions : \E format \in Formats : GetSourceFaulty(ver, format)

SpecSoft == InitSoft /\ [][NextSoft]_vars

----------------------------------------------------------------------------
(* SpecRandom: get_random_paper on a manifest whose archives are partly on *)
(* disk.                                                                   *)

\* A path below the tar directory: "<dir>/<stem><ext>".
DiskPath(dir, stem, ext) == [dir |-> dir, stem |-> stem, ext |-> ext]

RandomArchives ==
    {DiskPath("2015", "arXiv_src_1501_001", ".tar"),
     DiskPath("2004", "arXiv_src_0412_001", ".tar")}

\* The regular files the tar directory may hold: the archives, and a file
\* that is not an archive.
DiskFiles == RandomArchives \cup {DiskPath("2015", "README", ".txt")}

AstroPhGA == LegacyCategory \o <<".", "G", "A">>

RandomRows ==
    [paper_id : {ModernId, LegacyCategory \o LegacyNumber},
     archive_file : RandomArchives, offset : {512}, size : {2},
     file_type : {"pdf", "gzip"}, year : {2015}, categories : {<<>>, AstroPhGA}]

\* paper_id is the primary key of paper_index.
RandomManifests ==
    {rows \in SUBSET RandomRows :
        \A r1, r2 \in rows : r1.paper_id = r2.paper_id => r1 = r2}

\* str LIKE '%sub%' (LIKE compares ASCII letters without case)
LikeContains(str, sub) ==
    \E i \in 0..(Len(str) - Len(sub)) :
        LowerStr(SubSeq(str, i + 1, i + Len(sub))) = LowerStr(sub)

\* str LIKE 'prefix%'
LikePrefix(str, prefix) == StartsWith(LowerStr(str), LowerStr(prefix))

\* The os.walk loop: the relative paths of the files that end with '.tar'.
AvailableArchives(disk) == {f \in disk : f.ext = ".tar"}

\* The WHERE clause without the archive condition.
RandomConditions(row, has_categories, format, category) ==
    /\ format = "pdf" => row.file_type = "pdf"
    /\ format = "source" => row.file_type \in {"gzip", "tar"}
    /\ category # <<>> =>
          IF has_categories
          THEN \/ LikePrefix(row.paper_id, LowerStr(category))
               \/ LikeContains(row.categories, LowerStr(category))
          ELSE LikePrefix(row.paper_id, LowerStr(category))

RandomResult(row, disk) ==
    [paper_id          |-> row.paper_id,
     archive_file      |-> row.archive_file,
     file_type         |-> row.file_type,
     format            |-> GetFormatFromFileType(row.file_type),
     size_bytes        |-> row.size,
     year              |-> row.year,
     locally_available |-> row.archive_file \in disk]

\* A slip: the archive condition is left out of the WHERE clause.
GetRandomPaper_AnyArchive(rows, disk, has_categories, format, category, local_only) ==
    LET matching == {r \in rows : RandomConditions(r, has_categories, format, category)}
    IN  IF local_only /\ AvailableArchives(disk) = {} THEN {{}}
        ELSE IF matching = {} THEN {{}}
        ELSE {{RandomResult(r, disk)} : r \in matching}

\* get_random_paper: the results ORDER BY RANDOM() LIMIT 1 may give; {} is
\* None.
GetRandomPaper(rows, disk, has_categories, format, category, local_only) ==
    LET available == IF local_only THEN AvailableArchives(disk) ELSE {}
        matching  ==
            {r \in rows :
                /\ RandomConditions(r, has_categories, format, category)
                /\ available # {} => r.archive_file \in available}
    IN  IF local_only /\ available = {} THEN {{}}
        ELSE IF matching = {} THEN {{}}
        ELSE {{RandomResult(r, disk)} : r \in matching}

NoRandomCall == [format |-> "none", category |-> <<>>, local_only |-> FALSE]

InitRandom ==
    /\ CacheIdle
    /\ IdxIdle
    /\ RaceIdle
    /\ paper_index \in RandomManifests
    /\ settings = [cache |-> TRUE, upstream |-> FALSE, arxiv |-> FALSE]
    /\ request = NoRequest
    /\ response = ErrorResponse("")
    /\ trace = <<>>
    /\ \E disk \in SUBSET DiskFiles : \E has_categories \in BOOLEAN :
          input = [disk |-> disk, has_categories |-> has_categories,
                   call |-> NoRandomCall]
    /\ output = [called |-> FALSE, result |-> {}]

randomRest == <<files, touched, lastOp, retVars, idxVars, raceVars>>

\* One call of get_random_paper.
RandomPaper(format, category, local_only) ==
    /\ now < MaxCalls
    /\ \E result \in GetRandomPaper(paper_index, input.disk, input.has_categories,
                                    format, category, local_only) :
          output' = [called |-> TRUE, result |-> result]
    /\ input' = [input EXCEPT !.call = [format |-> format, category |-> category,
                                        local_only |-> local_only]]
    /\ now' = now + 1
    /\ UNCHANGED randomRest

NextRandom ==
    \E format \in {"none", "pdf", "source"} :
    \E category \in {<<>>, LegacyCategory} :
    \E local_only \in BOOLEAN :
        RandomPaper(format, category, local_only)

SpecRandom == InitRandom /\ [][NextRandom]_vars

----------------------------------------------------------------------------
(* SpecBudget: two threads call put of one PaperCache, each on its own key. *)
(* A put is a listing of the directory, the unlinks of the eviction loop    *)
(* and the write; the steps of the two threads interleave.                  *)

\* The key each thread writes, and the key of a blob cached earlier.
BudgetKey(t) ==
    IF t = "t1" THEN Key("1501.00963", NoVer) ELSE Key("1501.00964", NoVer)
OldKey == Key("1501.00001", NoVer)

\* The sizes put is called with; the last is over the budget.
BudgetLens == {2, 3, max_size_bytes + 1}

BudgetEntry(k, n, t) == [size |-> n, mtime |-> t, content |-> Blob(k, "%PDF", n)]

IdlePut == [pc |-> "idle", calls |-> 0, size |-> 0, entries |-> <<>>, i |-> 0,
            current_size |-> 0, target_size |-> 0]

InitBudget ==
    /\ \/ files = <<>>
       \/ \E n \in {2, 3} : files = Store(<<>>, OldKey, BudgetEntry(OldKey, n, 0))
    /\ now = 0
    /\ touched = <<>>
    /\ lastOp = NoOp
    /\ RetIdle
    /\ IdxIdle
    /\ PureIdle
    /\ fs = <<>>
    /\ threads = [t \in Threads |-> IdlePut]

budgetRest == <<touched, lastOp, retVars, idxVars, pureVars, fs>>

\* put(paper_id, content) is called: an oversize blob is refused at once.
BudgetPutCall(t) ==
    /\ threads[t].pc = "idle"
    /\ threads[t].calls < MaxThreadCalls
    /\ \E n \in BudgetLens :
          threads' = [threads EXCEPT
                        ![t].pc = IF n > max_size_bytes THEN "idle" ELSE "list",
                        ![t].calls = @ + 1,
                        ![t].size = n]
    /\ UNCHANGED <<files, now, budgetRest>>

\* _evict_if_needed: _get_cache_entries() lists the directory; the sizes are
\* summed and compared with the target.
BudgetList(t) ==
    /\ threads[t].pc = "list"
    /\ \E listing \in GetCacheEntries(files) :
          LET entries == [i \in 1..Len(listing) |->
                            [path |-> listing[i], size |-> files[listing[i]].size]]
              current_size == GetCurrentSize(files)
              target_size  == max_size_bytes - threads[t].size
          IN  threads' = [threads EXCEPT
                            ![t].pc = IF current_size <= target_size
                                      THEN "write" ELSE "evict",
                            ![t].entries = entries,
                            ![t].i = 1,
                            ![t].current_size = current_size,
                            ![t].target_size = target_size]
    /\ UNCHANGED <<files, now, budgetRest>>

\* One turn of the eviction loop: path.unlink() of the next listed entry; an
\* entry that is gone raises OSError, which is logged and not counted.
BudgetUnlink(t) ==
    /\ threads[t].pc = "evict"
    /\ LET th == threads[t]
       IN  IF th.i > Len(th.entries) \/ th.current_size <= th.target_size
           THEN /\ threads' = [threads EXCEPT ![t].pc = "write"]
                /\ UNCHANGED files
           ELSE LET e == th.entries[th.i]
                IN  IF e.path \in DOMAIN files
                    THEN /\ files' = Remove(files, e.path)
                         /\ threads' = [threads EXCEPT
                                          ![t].i = @ + 1,
                                          ![t].current_size = @ - e.size]
                    ELSE /\ threads' = [threads EXCEPT ![t].i = @ + 1]
                         /\ UNCHANGED files
    /\ UNCHANGED <<now, budgetRest>>

\* cache_path.write_bytes(content)
BudgetWrite(t) ==
    /\ threads[t].pc = "write"
    /\ files' = Store(files, BudgetKey(t),
                      BudgetEntry(BudgetKey(t), threads[t].size, now + 1))
    /\ now' = now + 1
    /\ threads' = [threads EXCEPT ![t].pc = "idle"]
    /\ UNCHANGED budgetRest

NextBudget ==
    \E t \in Threads :
        \/ BudgetPutCall(t)
        \/ BudgetList(t)
        \/ BudgetUnlink(t)
        \/ BudgetWrite(t)

SpecBudget == InitBudget /\ [][NextBudget]_vars


---------------------------------------------------------------------------
(* The sequential arXiv indexer (src/index_arxiv_bulk_files.py): one        *)
(* connection for the whole scan, one tar after the other.                  *)

\* sorted(root_path.iterdir()) and sorted(tar_files): the order of the visit.
SortedTarFiles == <<"2015/arXiv_src_1501_001.tar", "2021/arXiv_src_2103_001.tar">>

\* The next tar of the loop: the first of the order that was not visited.
NextTar(waiting) ==
    SortedTarFiles[CHOOSE i \in 1..Len(SortedTarFiles) :
                      /\ SortedTarFiles[i] \in waiting
                      /\ \A j \in 1..(i - 1) : SortedTarFiles[j] \notin waiting]

\* The rows index_tar_file has inserted when reading the archive raises:
\* the members the stream has yielded so far, in the order of the archive.
TarPrefixes(f, gen) ==
    LET entries == ScanEntries(f, gen)
    IN  {Restrict(entries, {k \in DOMAIN entries : entries[k].offset < cut}) :
            cut \in {0} \cup {entries[k].offset + 1 : k \in DOMAIN entries}}

InitSeq ==
    /\ InitIdx
    /\ corpus = "arxiv"

\* scan_arxiv_directory up to its loop: the connection is opened.
SeqScanDirectory ==
    /\ pc = "idle"
    /\ run.n < MaxRuns
    /\ run' = [NewRun("seq") EXCEPT !.waiting = DOMAIN tree]
    /\ tx' = NoTx
    /\ pc' = "seq"
    /\ UNCHANGED <<tree, paper_index, bulk_files, idxRest>>

\* The loop finds the next tar processed already and skips it.
SeqSkipProcessed ==
    /\ pc = "seq"
    /\ run.waiting # {}
    /\ IsFileProcessed(bulk_files, tree, NextTar(run.waiting))
    /\ run' = [run EXCEPT !.waiting = @ \ {NextTar(run.waiting)},
                          !.skipped_count = @ + 1]
    /\ UNCHANGED <<tree, paper_index, bulk_files, tx, pc, idxRest>>

\* index_tar_file returns: one INSERT OR REPLACE per member (a sqlite3.Error
\* of a row is logged and that row is left out), then conn.commit(), which
\* commits everything the connection's open transaction holds.
SeqIndexTarFile ==
    /\ pc = "seq"
    /\ run.waiting # {}
    /\ LET f == NextTar(run.waiting)
           entries == ScanEntries(f, tree[f].gen)
       IN  /\ ~ IsFileProcessed(bulk_files, tree, f)
           /\ ~ tree[f].corrupt
           /\ \E bad \in SUBSET (DOMAIN entries) :
                 /\ paper_index' =
                       Upsert(paper_index,
                              Upsert(tx.entries,
                                     Restrict(entries, (DOMAIN entries) \ bad)))
                 /\ run' = [run EXCEPT
                              !.waiting = @ \ {f}, !.cur = f,
                              !.total_entries = @ + Cardinality((DOMAIN entries) \ bad),
                              !.write_failed = IF bad = {} THEN @ ELSE @ \cup {f}]
    /\ bulk_files' = Upsert(bulk_files, tx.rows)
    /\ tx' = NoTx
    /\ pc' = "seq_mark"
    /\ UNCHANGED <<tree, idxRest>>

\* index_tar_file raises while it reads the archive: the rows inserted so
\* far stay in the connection's open transaction (there is no rollback),
\* the loop logs the failure and goes on with the next tar.
SeqIndexTarFileError ==
    /\ pc = "seq"
    /\ run.waiting # {}
    /\ LET f == NextTar(run.waiting)
       IN  /\ ~ IsFileProcessed(bulk_files, tree, f)
           /\ tree[f].corrupt
           /\ \E inserted \in TarPrefixes(f, tree[f].gen) :
                 tx' = [tx EXCEPT !.entries = Upsert(@, inserted)]
           /\ run' = [run EXCEPT !.waiting = @ \ {f}, !.cur = f,
                                 !.files_failed = @ + 1]
    /\ UNCHANGED <<tree, paper_index, bulk_files, pc, idxRest>>

\* mark_file_processed: the bulk_files row of the tar and conn.commit().
SeqMarkFileProcessed ==
    /\ pc = "seq_mark"
    /\ paper_index' = Upsert(paper_index, tx.entries)
    /\ bulk_files' =
          Upsert(Upsert(bulk_files, tx.rows),
                 (run.cur :> BulkRow(GetFileHash(run.cur, tree[run.cur].gen),
                                     tree[run.cur].mtime)))
    /\ tx' = NoTx
    /\ pc' = "seq"
    /\ run' = [run EXCEPT !.files_processed = @ + 1]
    /\ UNCHANGED <<tree, idxRest>>

\* The loop is over: the summary is logged and conn.close() drops what the
\* connection has not committed.
SeqFinish ==
    /\ pc = "seq"
    /\ run.waiting = {}
    /\ tx' = NoTx
    /\ pc' = "idle"
    /\ run' = [run EXCEPT !.outcome = "complete"]
    /\ UNCHANGED <<tree, paper_index, bulk_files, idxRest>>

NextSeq ==
    \/ SeqScanDirectory
    \/ SeqSkipProcessed
    \/ SeqIndexTarFile
    \/ SeqIndexTarFileError
    \/ SeqMarkFileProcessed
    \/ SeqFinish
    \/ Interrupt
    \/ \E f \in DOMAIN tree : TouchFile(f)
    \/ \E f \in DOMAIN tree : ReplaceFile(f)

SpecSeq == InitSeq /\ [][NextSeq]_vars

----------------------------------------------------------------------------
(* Claims about retrieval, checked under SpecRet                           *)

Called == request.base # ""

\* No remote tier produced content during the last call (disabled tiers are
\* not consulted at all).
RemoteSilent ==
    \A i \in 1..Len(trace) :
        trace[i].tier \in {"upstream", "origin"} => ~ trace[i].produced

\* The format of returned bytes, as their magic tells it.
ContentFormat(content) ==
    IF DetectContentType(content) = "application/pdf" THEN "pdf"
    ELSE IF DetectContentType(content) \in {"application/gzip", "application/x-tar"}
         THEN "source"
    ELSE "unknown"

\* C1. Version exact match: when the request names a version v and the
\* manifest has no row "<base>v<v>", the row of the bare base id is never
\* served in its place (from the local archive or from the cache), and when
\* no remote tier produces content the result is version_not_found.
C1_VersionExactMatch ==
    (Called /\ request.ver >= 1
       /\ Key(request.base, request.ver) \notin DOMAIN paper_index) =>
        /\ ~ ( /\ response.source \in {"local", "cache"}
               /\ \E c \in response.content : c.doc = Key(request.base, NoVer) )
        /\ RemoteSilent => (response.content = {}
                              /\ response.error = "version_not_found")

\* C2. Format guarantee: a successful call with format pdf or source returns
\* bytes of that format, whichever tier served them; otherwise the call
\* returns an error.
C2_FormatGuarantee ==
    Called =>
        /\ request.format \in {"pdf", "source"} =>
              \A c \in response.content : ContentFormat(c) = request.format
        /\ response.content = {} =>
              response.error \in {"not_found", "format_unavailable", "version_not_found"}

TierRank(tier) ==
    IF tier = "cache" THEN 1 ELSE IF tier = "local" THEN 2
    ELSE IF tier = "upstream" THEN 3 ELSE 4

\* C3. Tier ordering: within one call the tiers are consulted in the order
\* cache, local, upstream, origin; a tier is consulted only if every tier
\* consulted before it produced no content, so a tier that produces content
\* is the last one consulted.
C3_TierOrdering ==
    /\ \A i \in 1..Len(trace) : \A j \in 1..Len(trace) :
          i < j => TierRank(trace[i].tier) < TierRank(trace[j].tier)
    /\ \A i \in 1..Len(trace) : trace[i].produced => i = Len(trace)

\* A call that went through all four tiers and was served by the last.
C3_Witness ==
    /\ Len(trace) = 4
    /\ trace[1].tier = "cache" /\ trace[4].tier = "origin"
    /\ trace[4].produced
    /\ response.content # {}

\* The key the request resolves to: "<base>v<version>" when it names a
\* version, the base id otherwise.
RequestKey == Key(request.base, request.ver)

\* The manifest has a row under the request's key, and the row's format is
\* not the one the request's filter asks for.
EntryFormatMismatch ==
    /\ RequestKey \in DOMAIN paper_index
    /\ request.format \in {"pdf", "source"}
    /\ GetFormatFromFileType(paper_index[RequestKey].file_type) # request.format

ConsultedTier(tier) == \E i \in 1..Len(trace) : trace[i].tier = tier

UpstreamProduced ==
    \E i \in 1..Len(trace) : trace[i].tier = "upstream" /\ trace[i].produced

NoTierProduced == \A i \in 1..Len(trace) : ~ trace[i].produced

\* C13. Format mismatch: when the manifest entry found for the request has
\* a format other than the requested filter, neither the cache tier nor the
\* local tier is consulted; the upstream tier is still tried when enabled,
\* and the origin tier when enabled and upstream produced nothing; and when
\* they produce nothing the result is the error format_unavailable.
C13_FormatMismatch ==
    (Called /\ EntryFormatMismatch) =>
        /\ ~ ConsultedTier("cache")
        /\ ~ ConsultedTier("local")
        /\ settings.upstream => ConsultedTier("upstream")
        /\ (settings.arxiv /\ ~ UpstreamProduced) => ConsultedTier("origin")
        /\ RemoteSilent => (response.content = {}
                              /\ response.error = "format_unavailable")

\* A source member was asked for as pdf with the cache and both remote tiers
\* on: only upstream and origin were consulted, neither had anything.
C13_Witness ==
    /\ Called /\ EntryFormatMismatch
    /\ settings.cache
    /\ Len(trace) = 2
    /\ trace[1].tier = "upstream" /\ trace[2].tier = "origin"
    /\ NoTierProduced
    /\ response.error = "format_unavailable"

\* C14. Error precedence: when no tier produces content the call returns
\* version_not_found if a version was required and the versioned entry is
\* absent from the manifest; otherwise format_unavailable if the entry's
\* format did not match the filter; otherwise not_found. It is one of these
\* three and content is None.
C14_ErrorPrecedence ==
    (Called /\ NoTierProduced) =>
        /\ response.content = {}
        /\ response.error =
              (IF request.ver # NoVer /\ RequestKey \notin DOMAIN paper_index
               THEN "version_not_found"
               ELSE IF EntryFormatMismatch THEN "format_unavailable"
               ELSE "not_found")

\* A version was asked for that the manifest lacks, the row of the base id
\* has the wrong format, and no tier produced anything.
C14_Witness ==
    /\ Called /\ NoTierProduced
    /\ request.ver = 2
    /\ request.format = "pdf"
    /\ Key(request.base, NoVer) \in DOMAIN paper_index
    /\ paper_index[Key(request.base, NoVer)].file_type = "gzip"
    /\ settings.upstream /\ settings.arxiv
    /\ response.error = "version_not_found"

\* C15. Cache-on-success: with the cache enabled, a call that succeeds from
\* the local, upstream or origin tier leaves the returned bytes in the cache
\* under the key the request resolves to (all blobs here fit the budget),
\* and a call that fails leaves the cache directory as it was.
C15_CacheOnSuccess ==
    [][ /\ ( /\ settings.cache
             /\ response'.content # {}
             /\ response'.source \in {"local", "upstream", "arxiv_pdf", "arxiv_source"} )
           => /\ Key(request'.base, request'.ver) \in DOMAIN files'
              /\ {files'[Key(request'.base, request'.ver)].content} = response'.content
        /\ response'.content = {} => files' = files ]_vars

----------------------------------------------------------------------------
(* Claims about the cache, checked under SpecCache                         *)

C6_Retention ==
    (lastOp.op = "put" /\ lastOp.hit) =>
        \A e \in lastOp.evicted \ {lastOp.key} :
            LET newer == { s \in (DOMAIN lastOp.before) \ {e, lastOp.key} :
                             lastOp.tbefore[s] > lastOp.tbefore[e] }
            IN  lastOp.len + lastOp.before[e].size
                  + SumSizes(lastOp.before, newer) > max_size_bytes

\* C17. Oversize put is refused: put(key, blob) with len(blob) greater than
\* the whole budget returns False and leaves the cache directory as it was:
\* nothing is evicted and nothing is written.
C17_OversizeRefused ==
    (lastOp.op = "put" /\ lastOp.len > max_size_bytes) =>
        /\ ~ lastOp.hit
        /\ lastOp.evicted = {}
        /\ files = lastOp.before

\* An oversize put on a directory that holds two entries.
C17_Witness ==
    /\ lastOp.op = "put" /\ lastOp.len > max_size_bytes
    /\ Cardinality(DOMAIN lastOp.before) = 2
    /\ ~ lastOp.hit

----------------------------------------------------------------------------
(* Claims about the cache under concurrent callers, checked under SpecRace *)

\* C16. Same-key write atomicity: when put(key, blob) runs concurrently
\* with get(key) or with another put on the same key, the cache file is
\* never observable partially written: every get returns nothing or a
\* complete blob that some put wrote, never a prefix, an empty file or a
\* mixture.
C16_SameKeyAtomicity ==
    \A t \in DOMAIN threads :
        threads[t].result.op = "get" =>
            threads[t].result.value \subseteq CompleteBlobs

----------------------------------------------------------------------------
(* Claims about the indexing pipeline, checked under SpecIdx               *)

\* The manifest keys whose committed row points into bulk file f.
EntriesFrom(index, f) == {k \in DOMAIN index : index[k].archive_file = f}

\* Nothing of bulk file f has been committed since the run started.
NothingCommittedFor(f) ==
    /\ f \in DOMAIN bulk_files =>
          (f \in DOMAIN run.start_bulk /\ bulk_files[f] = run.start_bulk[f])
    /\ \A k \in EntriesFrom(paper_index, f) :
          k \in DOMAIN run.start_index /\ paper_index[k] = run.start_index[k]

\* C7. Atomic batch and processed record: in every committed state of the
\* manifest, in every mode and under interruption at any point, a reader
\* sees for each bulk file either all its entries together with its
\* bulk_files record, or none of its entries and no record.
C7_AtomicBatch ==
    \A f \in DOMAIN tree :
        \/ /\ f \in DOMAIN bulk_files
           /\ \E g \in 1..MaxGen :
                 /\ bulk_files[f].file_hash = GetFileHash(f, g)
                 /\ DOMAIN ScanEntries(f, g) \subseteq EntriesFrom(paper_index, f)
        \/ /\ f \notin DOMAIN bulk_files
           /\ EntriesFrom(paper_index, f) = {}

\* C8. Manifest write error is fatal for the batch: when the write of an
\* entry of a bulk file fails, none of that file's entries is committed and
\* the file is not recorded in bulk_files, in directory-scan mode and in
\* single-file mode alike.
C8_WriteErrorFatal ==
    \A f \in run.write_failed : NothingCommittedFor(f)

\* The dispatched files whose failed result the coordinator has taken.
FailedTaken == {f \in run.work_items \ run.waiting : run.tree0[f].corrupt}

\* The coordinator ingested the result of f: it wrote the row and the
\* entries of the file as the run found it, or dropped the result because
\* the stored hash is the file's.
Ingested(f) ==
    \/ /\ f \in DOMAIN run.processed_files
       /\ run.processed_files[f].file_hash = run.tree0[f].hash
    \/ /\ f \in DOMAIN bulk_files
       /\ bulk_files[f] = BulkRow(run.tree0[f].hash, run.tree0[f].mtime)
       /\ \A k \in DOMAIN ScanEntries(f, run.tree0[f].gen) :
             /\ k \in DOMAIN paper_index
             /\ paper_index[k] = ScanEntries(f, run.tree0[f].gen)[k]

C10_PipelineIdempotence ==
    (run.mode = "scan" /\ run.second) =>
        /\ run.work_items = {}
        /\ paper_index = run.start_index
        /\ bulk_files = run.start_bulk
        /\ run.skipped_count = Cardinality(DOMAIN tree)

\* The files a scan dispatched (their mtime was not the stored one) whose
\* worker returned the stored hash.
HashMatched ==
    {f \in run.work_items :
        /\ ~ run.tree0[f].corrupt
        /\ f \in DOMAIN run.processed_files
        /\ run.processed_files[f].file_hash = run.tree0[f].hash}

\* C23. Skip decision on hash match: when a bulk file's mtime differs from
\* the stored last_modified but the worker's hash equals the stored
\* file_hash, the coordinator upserts none of the scan's entries and
\* refreshes the stored last_modified of the file's bulk_files row to the
\* current mtime, so that the next run skips the file on the mtime path.
C23_SkipOnHashMatch ==
    (run.mode = "scan" /\ run.outcome = "complete") =>
        \A f \in HashMatched :
            /\ \A k \in EntriesFrom(paper_index, f) :
                  k \in DOMAIN run.start_index /\ paper_index[k] = run.start_index[k]
            /\ f \in DOMAIN bulk_files
            /\ bulk_files[f].last_modified = run.tree0[f].mtime
            /\ f \notin WorkItems(run.tree0, GetProcessedFiles(bulk_files))

\* What reading size bytes at offset in release gen of bulk file f yields:
\* the document stored exactly there, or no document at all.
DocumentAt(f, gen, offset, size) ==
    {m.id : m \in {x \in MembersOf(f, gen) : x.offset = offset /\ x.size = size}}

\* The manifest has bulk file f in the release that is on disk.
IndexedAsOnDisk(f) ==
    f \in DOMAIN bulk_files /\ bulk_files[f].file_hash = tree[f].hash

\* C11. Verbatim-document invariant: for every manifest entry whose bulk
\* file is on disk and indexed in its current release (also a release that
\* replaced an indexed one and was indexed again), size bytes at offset are
\* that entry's document: no row of the file points into the old contents.
C11_VerbatimDocument ==
    \A f \in DOMAIN tree :
        IndexedAsOnDisk(f) =>
            \A k \in EntriesFrom(paper_index, f) :
                DocumentAt(f, tree[f].gen, paper_index[k].offset, paper_index[k].size)
                    = {k.base}

----------------------------------------------------------------------------
(* Claims about the byte-range fetchers, checked under SpecFetch           *)

\* C12. Byte-range round trip: for every entry a scanner produced from a
\* bulk file that is unchanged on disk, the fetcher returns exactly size
\* bytes, and they are the document's payload: for a tar member its data
\* bytes, first to last; for USPTO the block, which parsed again by
\* _extract_patent_info gives the entry's doc-number, kind code, doc type
\* and year.
C12_ByteRangeRoundTrip ==
    \A i \in 1..Len(output.fetched) :
        LET e == output.entries[i]
            got == output.fetched[i]
        IN  /\ Len(got) = e.size
            /\ input.kind = "tar" =>
                  \A b \in 1..e.size : got[b] = [t |-> "data", m |-> e.m, b |-> b]
            /\ input.kind = "zip" =>
                  ExtractPatentInfo(got) =
                      {[doc_number |-> e.id, kind_code |-> e.kind_code,
                        doc_type |-> e.doc_type, year |-> e.year]}

\* Both entries of a two-member tar archive have been fetched, the second
\* of them with a payload that needed padding before it.
C12_Witness ==
    /\ input.kind = "tar"
    /\ Len(output.fetched) = 2
    /\ output.entries[1].size = 3
    /\ Len(output.fetched[2]) = 2

----------------------------------------------------------------------------
(* Claims about the identifier normalizers, checked under SpecNorm         *)

\* C19. Normalizer idempotence: normalize(normalize(X)) = normalize(X) for
\* every supported form X: for normalize_paper_id over modern and legacy
\* arXiv ids (with or without the slash), bare, with the "arXiv:" prefix or
\* as abs/pdf URL, with or without a version suffix; for normalize_patent_id
\* over numeric and D/RE/PP-prefixed numbers with or without the "US" prefix
\* and a kind code.
C19_NormalizerIdempotence ==
    (input # <<>> /\ input.kind \in {"paper", "patent"} /\ output.step = 2) =>
        output.twice = output.once

\* A legacy id with slash, prefix and version, and a reissue number with
\* "US" and kind code, have each been normalized twice to their bare form.
C19_Witness ==
    /\ input # <<>>
    /\ output.step = 2
    /\ \/ /\ input.kind = "paper"
          /\ input.str = ArxivColon \o LegacyCategory \o <<"/">> \o LegacyNumber
                           \o <<"v", "1">>
          /\ output.once = LegacyCategory \o LegacyNumber
       \/ /\ input.kind = "patent"
          /\ input.str = <<"U", "S">> \o ReissueNumber \o <<"E">>
          /\ output.once = ReissueNumber

\* C20. Version parsing: for every legal arXiv id and version number v,
\* parse_paper_id("<id>v<v>") = (normalize_paper_id("<id>"), v), and
\* _resolve_paper_id returns the lookup key "<base>v<v>" with
\* version_required true; for an input without version suffix the key is
\* the base id and version_required is false.
C20_VersionParsing ==
    (input # <<>> /\ input.kind = "resolve" /\ output.step = 1) =>
        LET base == NormalizePaperId(input.str)
        IN  IF input.v # NoVer
            THEN /\ output.parsed = [base |-> base, version |-> input.v]
                 /\ output.resolved.lookup_id = base \o <<"v">> \o IntToStr(input.v)
                 /\ output.resolved.version_required
            ELSE /\ output.resolved.lookup_id = base
                 /\ ~ output.resolved.version_required

\* The legacy id with slash was resolved with a two-digit version.
C20_Witness ==
    /\ input # <<>>
    /\ input.kind = "resolve"
    /\ input.str = LegacyCategory \o <<"/">> \o LegacyNumber
    /\ input.v = MaxVersion
    /\ output.step = 1
    /\ output.parsed.version = MaxVersion
    /\ output.resolved.version_required

----------------------------------------------------------------------------
(* Claims about patent retrieval, checked under SpecPat                    *)

\* C18. USPTO retrieval flow: get_patent_by_id consults the local zip
\* archive first and the upstream server only if the local tier yielded
\* nothing (and then always, when an upstream is configured and enabled); it
\* consults no cache and no origin tier and leaves the cache directory
\* alone; the id is not split into base and version (a request with a
\* version suffix is not served from the row of the number before it); and
\* when both tiers yield nothing it returns the error not_found.
C18_PatentFlow ==
    now > 0 =>
        /\ Len(trace) \in {1, 2}
        /\ trace[1].tier = "local"
        /\ Len(trace) = 2 => (trace[2].tier = "upstream" /\ ~ trace[1].produced)
        /\ (~ trace[1].produced /\ PatentUpstreamOn(settings)) => Len(trace) = 2
        /\ files = <<>>
        /\ trace[1].produced =>
              /\ response.source = "local"
              /\ NormalizePatentId(request) \in DOMAIN paper_index
              /\ response.content =
                    {Blob(NormalizePatentId(request), "xml",
                          paper_index[NormalizePatentId(request)].size)}
        /\ UpstreamProduced => response.source = "upstream"
        /\ NoTierProduced => (response.content = {} /\ response.error = "not_found")
        /\ VersionMatch(request) # {} => ~ trace[1].produced

\* The number is in the manifest but its ZIP is not on disk, the upstream
\* server was asked next and had nothing: not_found.
C18_Witness ==
    /\ now > 0
    /\ NormalizePatentId(request) \in DOMAIN paper_index
    /\ settings.bulk_dir
    /\ Len(trace) = 2
    /\ trace[2].tier = "upstream"
    /\ NoTierProduced
    /\ response.error = "not_found"

----------------------------------------------------------------------------
(* Claims about the manifest store, checked under SpecUpsert               *)

\* The columns of an entry, as the dict a lookup returns for it.
AsLookup(entry) ==
    [paper_id |-> entry.paper_id, archive_file |-> entry.archive_file,
     offset |-> entry.offset, size |-> entry.size, file_type |-> entry.file_type,
     year |-> entry.year, format |-> GetFormatFromFileType(entry.file_type)]

\* C21. Manifest upsert round trip: the manifest holds at most one row per
\* id; after a committed upsert of entry E, lookup(E.id) returns E's fields
\* exactly; after two successive committed upserts with the same id and
\* different (archive_file, offset, size), lookup returns the second.
C21_UpsertRoundTrip ==
    /\ \A r1 \in paper_index : \A r2 \in paper_index :
          r1.paper_id = r2.paper_id => r1 = r2
    /\ output.looked_up => output.result = {AsLookup(input[Len(input)])}

\* Two upserts of one id with different archive and offset, then a lookup
\* that returned the second.
C21_Witness ==
    /\ Len(input) = 2
    /\ input[1].paper_id = input[2].paper_id
    /\ input[1].archive_file # input[2].archive_file
    /\ input[1].offset # input[2].offset
    /\ output.looked_up
    /\ output.result = {AsLookup(input[2])}

----------------------------------------------------------------------------
(* Claims about years, checked under SpecYear                              *)

\* C26. Two-digit year mapping: for every two-digit year YY in 00..99 the
\* tar-location hint (modern and legacy ids) and the indexer's filename year
\* map YY to 19YY when YY >= 91 and to 20YY otherwise, so the hinted
\* year_dir is the directory under which the indexer expects the bulk file.
C26_TwoDigitYear ==
    LET expected == IF input.yy >= 91 THEN 1900 + input.yy ELSE 2000 + input.yy
    IN  /\ \A h \in output.modern : h.year_dir = IntToStr(expected)
        /\ \A h \in output.legacy : h.year_dir = IntToStr(expected)
        /\ \A y \in output.filename : y = expected
        /\ \A h \in output.modern \cup output.legacy : \A y \in output.filename :
              h.year_dir = IntToStr(y)

----------------------------------------------------------------------------
(* Claims about diagnostics, checked under SpecDiag                        *)

DiagnosticTypes ==
    {"empty_database", "paper_not_found", "version_not_found", "format_unavailable",
     "archive_missing", "permission_denied", "database_error", "system_error"}

\* C22. Closed diagnostics taxonomy: get_detailed_error returns an
\* error_type of the documented set, and for archive_missing the result
\* carries the archive_file the manifest expects for the paper.
C22_ClosedTaxonomy ==
    \A d \in output :
        /\ d.error_type \in DiagnosticTypes
        /\ d.error_type = "archive_missing" =>
              /\ Key(request.base, NoVer) \in DOMAIN paper_index
              /\ d.archive_file = {paper_index[Key(request.base, NoVer)].archive_file}

----------------------------------------------------------------------------
(* Claims about the document split, checked under SpecFetch                *)

\* The bytes a block covers, as positions counted from 0.
BlockRange(b) == b.offset .. (b.offset + b.size - 1)

\* C27. USPTO document split: the split returns one (offset, size) block per
\* occurrence of the XML declaration marker, in increasing offset order;
\* each block runs to the next marker and the last to the end of the
\* content; the blocks are non-empty, pairwise disjoint and cover exactly
\* the content from the first marker to the end; content with no marker
\* gives no blocks.
C27_DocumentSplit ==
    (input.kind = "zip" /\ output.scanned) =>
        LET content == input.bytes
            blocks  == output.blocks
            marks   == {i \in 0..(Len(content) - 1) : content[i + 1].t = "decl"}
        IN  /\ Len(blocks) = Cardinality(marks)
            /\ {blocks[i].offset : i \in 1..Len(blocks)} = marks
            /\ \A i \in 1..(Len(blocks) - 1) :
                  /\ blocks[i].offset < blocks[i + 1].offset
                  /\ blocks[i].size = blocks[i + 1].offset - blocks[i].offset
            /\ blocks # <<>> =>
                  blocks[Len(blocks)].size = Len(content) - blocks[Len(blocks)].offset
            /\ \A i \in 1..Len(blocks) : blocks[i].size > 0
            /\ \A i, j \in 1..Len(blocks) :
                  i # j => BlockRange(blocks[i]) \cap BlockRange(blocks[j]) = {}
            /\ UNION {BlockRange(blocks[i]) : i \in 1..Len(blocks)} =
                  {n \in 0..(Len(content) - 1) : \E m \in marks : m <= n}
            /\ marks = {} => blocks = <<>>

\* A content with text before its first marker is split into two blocks, the
\* first of them longer than the marker itself.
C27_Witness ==
    /\ input.kind = "zip"
    /\ output.scanned
    /\ Len(output.blocks) = 2
    /\ output.blocks[1].offset > 0
    /\ output.blocks[1].size > 1

----------------------------------------------------------------------------
(* Claims about failing tiers, checked under SpecSoft                      *)

\* The manifest key the last call looked up.
SoftLookupId == Plan(paper_index, request.base, request.ver, request.format).lookup_id

\* The cached file of the paper could not be read.
CacheFailed == ConsultedTier("cache") /\ input.cerr

\* The archive of the paper's row was missing or could not be read.
LocalFailed ==
    /\ ConsultedTier("local")
    /\ SoftLookupId \in DOMAIN paper_index
    /\ input.disk[paper_index[SoftLookupId].archive_file] \in {"missing", "unreadable"}

\* The upstream answered with another status, timed out or was unreachable.
UpstreamFailed ==
    /\ ConsultedTier("upstream")
    /\ input.up.status \in {"404"} \cup FailedStatuses

\* A request of the origin tier so failed.
OriginFailed ==
    /\ ConsultedTier("origin")
    /\ \/ input.pdf.status \in FailedStatuses
       \/ input.src.status \in FailedStatuses

LocalProduced ==
    \E i \in 1..Len(trace) : trace[i].tier = "local" /\ trace[i].produced

\* The tier a response's source names.
TierOfSource(source) ==
    IF source \in {"arxiv_pdf", "arxiv_source"} THEN "origin" ELSE source

\* C24. Tier failures are soft: a cached file or a local archive that is
\* missing or cannot be read, and an upstream or origin request that is
\* answered with a non-200 status, times out or fails on the network, count
\* as "the tier had nothing": the tiers after it are still tried until one
\* produces content, and the call returns either a success from a later tier or one of not_found,
\* version_not_found and format_unavailable, never the tier's own error.
C24_SoftTierFailures ==
    (Called /\ (CacheFailed \/ LocalFailed \/ UpstreamFailed \/ OriginFailed)) =>
        /\ response.error \in {"none", "not_found", "version_not_found",
                               "format_unavailable"}
        /\ CacheFailed => ConsultedTier("local")
        /\ (CacheFailed \/ LocalFailed) /\ settings.upstream /\ ~ LocalProduced
              => ConsultedTier("upstream")
        /\ (CacheFailed \/ LocalFailed \/ UpstreamFailed) /\ settings.arxiv
              /\ ~ LocalProduced /\ ~ UpstreamProduced
              => ConsultedTier("origin")
        /\ response.error = "none" =>
              /\ trace[Len(trace)].produced
              /\ trace[Len(trace)].tier = TierOfSource(response.source)
              /\ response.content # {}
        /\ NoTierProduced =>
              /\ response.error \in {"not_found", "version_not_found",
                                     "format_unavailable"}
              /\ response.content = {}

\* The cached file and the archive could not be read, the upstream timed
\* out, and the origin served the paper.
C24_Witness ==
    /\ Called
    /\ CacheFailed
    /\ LocalFailed
    /\ input.disk[paper_index[SoftLookupId].archive_file] = "unreadable"
    /\ UpstreamFailed
    /\ input.up.status = "timeout"
    /\ input.pdf.status = "500"
    /\ response.error = "none"
    /\ response.source = "arxiv_source"

----------------------------------------------------------------------------
(* Claims about random selection, checked under SpecRandom                 *)

\* The rows the last call's format and category filters select.
RandomMatching ==
    {r \in paper_index :
        RandomConditions(r, input.has_categories, input.call.format, input.call.category)}

\* C30. Random selection, local only: with local_only set, get_random_paper
\* returns only an entry whose archive_file exists on disk at query time
\* (locally_available is true), and None when no matching entry has its
\* archive on disk.
C30_RandomLocalOnly ==
    (output.called /\ input.call.local_only) =>
        /\ \A r \in output.result :
              /\ r.archive_file \in input.disk
              /\ r.locally_available
              /\ \E row \in RandomMatching :
                    row.paper_id = r.paper_id /\ row.archive_file = r.archive_file
        /\ (\A row \in RandomMatching : row.archive_file \notin input.disk) =>
              output.result = {}

\* Of two matching entries one has its archive on disk, and that one is
\* returned.
C30_Witness ==
    /\ output.called
    /\ input.call.local_only
    /\ Cardinality(RandomMatching) = 2
    /\ \E row \in RandomMatching : row.archive_file \notin input.disk
    /\ output.result # {}

----------------------------------------------------------------------------
(* Claims about concurrent puts, checked under SpecBudget                  *)

\* C25. Concurrent puts respect the budget: when two puts on different keys
\* run concurrently, eviction and write are serialized so that no
\* under-eviction occurs; after both puts complete the total size of the
\* cache is at most the budget, for every interleaving of their list, evict
\* and write steps.
C25_ConcurrentPutBudget ==
    (\A t \in Threads : threads[t].pc = "idle") =>
        GetCurrentSize(files) <= max_size_bytes

----------------------------------------------------------------------------
(* Claims about the writer of the manifest, checked under SpecIdx          *)

\* The bulk files whose entries or bulk_files row a transaction holds.
TxFiles(t) == {t.entries[k].archive_file : k \in DOMAIN t.entries} \cup DOMAIN t.rows

\* C28. Single writer: workers never read or write the manifest; every
\* write of the manifest is a commit of the single coordinator, which takes
\* one completed result at a time, so that the batches of two bulk files are
\* never interleaved inside one transaction.
C28_SingleWriter ==
    [][/\ TxFiles(tx') \subseteq {run'.cur}
       /\ pc' = "ingest" => tx' = NoTx
       /\ (pc' = "staged" /\ run'.mode = "scan") =>
             /\ tx'.entries = ProcessFileWorker(tree, run'.cur).entries
             /\ DOMAIN tx'.rows = {run'.cur}
       /\ (paper_index' # paper_index \/ bulk_files' # bulk_files) =>
             /\ pc \in {"staged", "tar_staged", "mark_staged"}
             /\ TxFiles(tx) \subseteq {run.cur}
             /\ paper_index' = Upsert(paper_index, tx.entries)
             /\ bulk_files' = Upsert(bulk_files, tx.rows)
             /\ tx' = NoTx]_vars

\* A directory scan has committed the batches of two bulk files.
C28_Witness ==
    /\ run.mode = "scan"
    /\ run.files_processed = 2
    /\ \A f \in DOMAIN tree : f \in DOMAIN bulk_files /\ EntriesFrom(paper_index, f) # {}

----------------------------------------------------------------------------
(* Claims about the completion of a scan, checked under SpecScan           *)

\* The dispatched files whose result the coordinator writes: readable, and
\* without a stored hash equal to the file's.
ToCommit == {f \in run.work_items : ~ run.tree0[f].corrupt} \ HashMatched

\* The batch of f as the run found it is committed together with its row.
CommittedWithRecord(f) ==
    /\ f \in DOMAIN bulk_files
    /\ bulk_files[f] = BulkRow(run.tree0[f].hash, run.tree0[f].mtime)
    /\ \A k \in DOMAIN ScanEntries(f, run.tree0[f].gen) :
          /\ k \in DOMAIN paper_index
          /\ paper_index[k] = ScanEntries(f, run.tree0[f].gen)[k]

\* Every dispatched file has been handled, each once.
HandledOnce ==
    /\ run.waiting = {}
    /\ \A f \in ToCommit : CommittedWithRecord(f)
    /\ run.files_processed = Cardinality(ToCommit)
    /\ \A f \in run.work_items \ ToCommit : NothingCommittedFor(f)
    /\ run.files_failed = Cardinality({f \in run.work_items : run.tree0[f].corrupt})
    /\ \A f \in (DOMAIN run.tree0) \ run.work_items : NothingCommittedFor(f)

----------------------------------------------------------------------------
(* Claims about repeated requests, checked under SpecRet                   *)

\* The last call was served by the local, the upstream or the origin tier.
FetchedFromTier ==
    /\ Called
    /\ response.error = "none"
    /\ response.source \in {"local", "upstream", "arxiv_pdf", "arxiv_source"}

\* C31. Repeat request hits the cache: after a call of get_source_by_id
\* succeeds from the local, upstream or origin tier with the cache enabled
\* and the blob within the budget, the same call made again at once (the
\* manifest unchanged, the cached file readable) is served with source
\* "cache" and the same bytes, for every form of id.
C31_RepeatHitsCache ==
    [][(/\ FetchedFromTier
        /\ settings.cache
        /\ \A c \in response.content : c.len <= max_size_bytes
        /\ request' = request
        /\ now' = now + 1
        /\ ~ (\E i \in 1..Len(trace') :
                 /\ trace'[i].tier = "cache"
                 /\ ~ trace'[i].produced
                 /\ Plan(paper_index, request.base, request.ver,
                         request.format).lookup_id \in DOMAIN files))
       => /\ response'.error = "none"
          /\ response'.source = "cache"
          /\ response'.content = response.content]_vars

\* The id the upstream GET of the last call names, and the id in the origin
\* URLs of the last call.
UpstreamAsked ==
    Plan(paper_index, request.base, request.ver, request.format).lookup_id
OriginAsked == ArxivId(request.base, request.ver)

\* C32. Remote tiers are asked for the exact version: when the request
\* names a version v, the upstream GET and the origin PDF and source URLs
\* made on its behalf name that same version (also for v = 0), and what a
\* remote tier returns is the document of that version.
C32_ExactVersionAsked ==
    (Called /\ request.ver # NoVer) =>
        /\ ConsultedTier("upstream") => UpstreamAsked = RequestKey
        /\ ConsultedTier("origin") => OriginAsked = RequestKey
        /\ (response.error = "none"
              /\ response.source \in {"upstream", "arxiv_pdf", "arxiv_source"}) =>
              \A c \in response.content : c.doc = RequestKey

\* The file type of returned bytes, as their magic tells it.
ContentFileType(content) ==
    IF DetectContentType(content) = "application/pdf" THEN "pdf"
    ELSE IF DetectContentType(content) = "application/gzip" THEN "gzip"
    ELSE IF DetectContentType(content) = "application/x-tar" THEN "tar"
    ELSE "unknown"

\* C33. Label matches content: in every successful result of
\* get_source_by_id the reported format and file_type describe the bytes
\* returned: a result labelled source never carries PDF bytes and a result
\* labelled pdf never carries source bytes, cache hits included.
C33_LabelMatchesContent ==
    (Called /\ response.error = "none") =>
        \A c \in response.content :
            /\ response.format = ContentFormat(c)
            /\ response.file_type = ContentFileType(c)

----------------------------------------------------------------------------
(* Claims about the order of the results, checked under SpecOrder          *)

\* The orders in which the results of the files items may complete.
CompletionOrders(items) ==
    {o \in [1..Cardinality(items) -> items] :
        \A i, j \in 1..Cardinality(items) : o[i] = o[j] => i = j}

\* The manifest after the batches of the files of order o, from the i-th on,
\* are committed to index one after the other.
RECURSIVE CommitInOrder(_, _, _)
CommitInOrder(index, o, i) ==
    IF i > Len(o) THEN index
    ELSE CommitInOrder(Upsert(index, ScanEntries(o[i], run.tree0[o[i]].gen)), o, i + 1)

\* C34. Completion-order independence: the manifest after a complete
\* parallel directory scan does not depend on the order in which the worker
\* results complete: the final paper_index is what every completion order
\* of the same bulk files gives, also when a paper id occurs in two bulk
\* files.
C34_OrderIndependence ==
    (run.mode = "scan" /\ run.outcome = "complete") =>
        \A o \in CompletionOrders(ToCommit) :
            paper_index = CommitInOrder(run.start_index, o, 1)


---------------------------------------------------------------------------
(* Claims about the sequential indexer, checked under SpecSeq.              *)

\* The tars of the running or last sequential scan whose index_tar_file
\* raised.
SeqFailedTars ==
    {f \in DOMAIN run.tree0 :
        /\ f \notin run.waiting
        /\ run.tree0[f].corrupt
        /\ ~ IsFileProcessed(run.start_bulk, run.tree0, f)}

\* C35: in the sequential indexer, no row of a tar whose index_tar_file
\* raised is committed during that scan (every committed row that points
\* into the tar was there when the scan started), and the tar gets no
\* bulk_files row.
C35_FailedTarLeavesNoRows ==
    run.mode = "seq" =>
        \A f \in SeqFailedTars :
            /\ \A k \in DOMAIN paper_index :
                  paper_index[k].archive_file = f =>
                      /\ k \in DOMAIN run.start_index
                      /\ run.start_index[k] = paper_index[k]
            /\ f \in DOMAIN bulk_files =>
                  /\ f \in DOMAIN run.start_bulk
                  /\ run.start_bulk[f] = bulk_files[f]

---------------------------------------------------------------------------
(* Claims about short archives, checked under SpecSoft.                     *)

\* The archive of the paper's row is shorter than offset + size.
ArchiveShort ==
    /\ SoftLookupId \in DOMAIN paper_index
    /\ input.disk[paper_index[SoftLookupId].archive_file] \in {"truncated", "emptied"}

\* C36: a success of the local tier carries exactly the size bytes the
\* manifest records; when the archive is shorter than offset + size the
\* local tier produces nothing, and no content shorter than the recorded
\* size is put into the cache under the paper's id.
C36_NoShortReads ==
    Called =>
        /\ (response.error = "none" /\ response.source = "local") =>
              \A c \in response.content : c.len = paper_index[SoftLookupId].size
        /\ (ConsultedTier("local") /\ ArchiveShort) =>
              /\ ~ LocalProduced
              /\ response.source # "local"
              /\ SoftLookupId \in DOMAIN files =>
                    files[SoftLookupId].content.len >= paper_index[SoftLookupId].size

---------------------------------------------------------------------------
(* Claims about the progress counters, checked under SpecIdx.               *)

\* C37: when a parallel directory scan has taken every result, the
\* counters add up: files_processed + files_failed is the number of
\* dispatched work items (the files_done of the progress line reaches its
\* files_total), whatever the mix of written, failed and hash-unchanged
\* results.
C37_ProgressAccounting ==
    (run.mode = "scan" /\ run.outcome = "complete") =>
        run.files_processed + run.files_failed = Cardinality(run.work_items)

============================================================================
